---- MODULE Spec2Model ----
(***************************************************************************)
(* Orchestration layer of the AI research review system.                   *)
(*                                                                         *)
(*   pipeline.py   the compiled stage graph with the critique/revise       *)
(*                 cycle, run_pipeline and the run_search_only,            *)
(*                 run_generate_only and run_revise_only helpers           *)
(*   app.py        the five-node graph search/extract/analyze/draft/       *)
(*                 finalize over a state with a single error field         *)
(*   __main__.py   ResearchReviewPipeline.run_complete, four stages that   *)
(*                 stop at the first stage returning False                 *)
(*                                                                         *)
(* and the components the stages call:                                     *)
(*                                                                         *)
(*   papersearch.py      validate_pdf, search_papers and download_pdf      *)
(*                       under their tenacity retry decorators             *)
(*   text_extraction.py  process_all_pdfs                                  *)
(*   paper_analyzer.py   section_paper, extract_insights, compare_papers   *)
(*                       over the model fallback chain, process_all_papers *)
(*   draft_generator.py  generate_draft                                    *)
(*   utils.py            safe_json_loads, sanitize_filename                *)
(*                                                                         *)
(* One entry point or component call runs at a time.  The node functions   *)
(* that pipeline.py imports (critique_paper_node, revise_node,             *)
(* revise_paper_node, ...) are not part of the sources; they are modelled  *)
(* from section 4.4 of the specification.  The HTTP services, the          *)
(* filesystem, the PDF library and the generation service are the          *)
(* environment: what they answer is drawn from small sets.                 *)
(***************************************************************************)
EXTENDS Integers, Sequences, FiniteSets, TLC

VARIABLES
    entry,      \* entry point in progress or last run ("none" before the first)
    pc,         \* next stage of the run, "END"/"summary" bookkeeping, or "done"
    state,      \* pipeline.py: PaperState (final_state of run_pipeline, state of the helpers)
    app,        \* app.py: PipelineState
    cli,        \* __main__.py: ResearchReviewPipeline.state
    executed,   \* stages started in the current run, in order
    outcome,    \* "running", "returned" or "raised": how the entry point ended
    raised,     \* text of the exception raised during the stage executed last (by the
                \* node in pipeline.py, by its collaborator in app.py and __main__.py),
                \* NoExc if it raised none
    calls,      \* collaborators and external operations called in the current run, in order
    runs,       \* entry point invocations so far
    disk,       \* papers directory: file name |-> content of the files that exist
    args,       \* arguments of the component call in progress or made last
    ret,        \* what that call gave its caller: Returned(value) or Raises(text)
    attempt,    \* tenacity: attempts of the wrapped function made in this call
    slept,      \* tenacity: the waits between the attempts, in seconds
    llm,        \* generate_content calls of this call: model identifier and response
    log         \* logger.error lines of the current run

compVars == <<disk, args, ret, attempt, slept, llm, log>>

vars == <<entry, pc, state, app, cli, executed, outcome, raised, calls, runs,
          disk, args, ret, attempt, slept, llm, log>>

----------------------------------------------------------------------------
(* Bounds *)

\* entry point invocations in one behaviour
MaxRuns == 2

\* partial failures a run's nodes record in errors (pipeline.py world)
MaxErrors == 1

\* documents a collaborator returns, files a directory listing holds
MaxDocs == 2

\* the limit argument of search_papers (the service answers with up to 2 x limit candidates)
MaxLimit == 2

----------------------------------------------------------------------------
(* Program constants *)

\* revision cap: "loop with max 2 iterations enforced in revise_node"
Cap == 2

\* saved_files[:3] / analysis_paths[:3] in the progress log
PreviewLimit == 3

NoExc == "<no exception>"
None == "<None>"

\* str(exc) of an exception: an exception built without arguments has the empty text
ExcTexts == {"", "boom"}

----------------------------------------------------------------------------
(* Helpers *)

Last(s) == s[Len(s)]

IsPrefix(s, t) == /\ Len(s) <= Len(t)
                  /\ SubSeq(t, 1, Len(s)) = s

Count(s, x) == Cardinality({i \in DOMAIN s : s[i] = x})

Min(a, b) == IF a < b THEN a ELSE b

\* Python {**a, **b}: b's keys win
Merge(a, b) == b @@ a

\* the empty dict
EmptyDict == [k \in {} |-> None]

Topic == "graph neural networks"

\* what a call does: return a value or raise an exception
Returned(v) == [kind |-> "return", value |-> v]
Raises(t)   == [kind |-> "raise", text |-> t]

\* ret before any component call
NoCall == [kind |-> "none"]

----------------------------------------------------------------------------
(* utils.py and the papers directory *)

Max(a, b) == IF a > b THEN a ELSE b

\* s[:n]
Take(s, n) == SubSeq(s, 1, Min(n, Len(s)))

\* the characters re.sub(r'[<>:"/\\|?*]', '_', filename) replaces
InvalidChars == {"<", ">", ":", "\"", "/", "\\", "|", "?", "*"}

\* file names longer than this are shortened, keeping NameKeep characters of the stem
NameLimit == 200
NameKeep == 195

\* position of the last "." of a name that has one
LastDot(s) == CHOOSE i \in DOMAIN s : s[i] = "." /\ \A j \in (i+1)..Len(s) : s[j] # "."

\* a file name is a sequence of characters
sanitize_filename(filename) ==
    LET subbed == [i \in DOMAIN filename |->
                      IF filename[i] \in InvalidChars THEN "_" ELSE filename[i]]
    IN IF Len(subbed) > NameLimit
       THEN IF \E i \in DOMAIN subbed : subbed[i] = "."
            THEN LET k == LastDot(subbed)
                     name == SubSeq(subbed, 1, k - 1)
                     ext == SubSeq(subbed, k + 1, Len(subbed))
                 IN Take(name, NameKeep) \o <<".", ".", ".">>
                    \o (IF ext # <<>> THEN <<".">> \o ext ELSE <<>>)
            ELSE Take(subbed, NameKeep) \o <<".", ".", ".">>
       ELSE subbed

\* the string a sequence of characters spells
RECURSIVE Join(_)
Join(chars) == IF chars = <<>> THEN "" ELSE chars[1] \o Join(Tail(chars))

\* titles of the papers the search service knows; the first two differ only
\* in a character sanitize_filename replaces
Titles == {<<"a", "/", "b">>, <<"a", "_", "b">>, <<"a", "b">>}

\* a paper record as search_papers builds it
Paper(title) == [title |-> title, pdf_url |-> "http://pdf/" \o Join(title)]

Papers == {Paper(t) : t \in Titles}

\* pdf_path = save_dir / f"{safe_title}.pdf"
PdfPath(paper) == Join(sanitize_filename(paper.title)) \o ".pdf"

\* the bytes of a file: one string per byte
PdfMagic == <<"%", "P", "D", "F">>

Contents ==
    { <<>>,
      PdfMagic,
      PdfMagic \o <<"-">>,
      <<"%", "P", "D">>,
      <<"<", "h", "t", "m", "l">> }

Suffixes == {".pdf", ".PDF", ".txt"}

\* str.lower() on a suffix
lower(suffix) == IF suffix = ".PDF" THEN ".pdf" ELSE suffix

\* what validate_pdf can be asked about: a path with nothing behind it, or a file
Files ==
    [exists : {FALSE}, suffix : Suffixes, content : {<<>>}]
    \cup [exists : {TRUE}, suffix : Suffixes, content : Contents]

\* the system call of validate_pdf that fails with OSError in this call:
\* "stat" is file_path.stat() (the file vanished after exists(), or an I/O error),
\* "open" is open()/read() of the header
Faults == {"none", "stat", "open"}

\* the file behind a path of the papers directory
FileAt(d, path) ==
    IF path \in DOMAIN d
    THEN [exists |-> TRUE, suffix |-> ".pdf", content |-> d[path]]
    ELSE [exists |-> FALSE, suffix |-> ".pdf", content |-> <<>>]

unlink(d, path) == [p \in DOMAIN d \ {path} |-> d[p]]

write(d, path, content) ==
    [p \in DOMAIN d \cup {path} |-> IF p = path THEN content ELSE d[p]]

----------------------------------------------------------------------------
(* papersearch.py: PaperSearcher *)

\* a validate_pdf whose extension test leaves out .lower()
validate_pdf_CaseSensitive(file_path, fault) ==
    IF ~file_path.exists
    THEN [kind |-> "return", value |-> FALSE, checks |-> <<"exists">>, oserror |-> "none"]
    ELSE IF file_path.suffix # ".pdf"
    THEN [kind |-> "return", value |-> FALSE, checks |-> <<"exists", "suffix">>,
          oserror |-> "none"]
    ELSE IF fault = "stat"
    THEN [kind |-> "raise", text |-> "OSError",
          checks |-> <<"exists", "suffix", "size">>, oserror |-> "stat"]
    ELSE IF Len(file_path.content) = 0
    THEN [kind |-> "return", value |-> FALSE,
          checks |-> <<"exists", "suffix", "size">>, oserror |-> "none"]
    ELSE IF fault = "open"
    THEN [kind |-> "return", value |-> FALSE,
          checks |-> <<"exists", "suffix", "size", "header">>, oserror |-> "open"]
    ELSE [kind |-> "return", value |-> (Take(file_path.content, 4) = PdfMagic),
          checks |-> <<"exists", "suffix", "size", "header">>, oserror |-> "none"]

\* the result says what was returned or raised, which checks were made, in order,
\* and which system call failed
validate_pdf(file_path, fault) ==
    IF ~file_path.exists
    THEN [kind |-> "return", value |-> FALSE, checks |-> <<"exists">>, oserror |-> "none"]
    ELSE IF lower(file_path.suffix) # ".pdf"
    THEN [kind |-> "return", value |-> FALSE, checks |-> <<"exists", "suffix">>,
          oserror |-> "none"]
    ELSE IF fault = "stat"
    THEN \* file_path.stat() is outside the try block: the OSError leaves validate_pdf
         [kind |-> "raise", text |-> "OSError",
          checks |-> <<"exists", "suffix", "size">>, oserror |-> "stat"]
    ELSE IF Len(file_path.content) = 0
    THEN [kind |-> "return", value |-> FALSE,
          checks |-> <<"exists", "suffix", "size">>, oserror |-> "none"]
    ELSE IF fault = "open"
    THEN \* except Exception: return False
         [kind |-> "return", value |-> FALSE,
          checks |-> <<"exists", "suffix", "size", "header">>, oserror |-> "open"]
    ELSE [kind |-> "return", value |-> (Take(file_path.content, 4) = PdfMagic),
          checks |-> <<"exists", "suffix", "size", "header">>, oserror |-> "none"]

\* TextExtractor.validate_pdf is the same function, line for line
TextExtractor_validate_pdf(file_path, fault) == validate_pdf(file_path, fault)

\* the failed system call of a validation, as an entry of calls
OsErrors(v) == IF v.oserror = "none" THEN <<>> ELSE <<v.oserror \o ":OSError">>

\* tenacity: stop_after_attempt(n) of search_papers
search_papers_stop == 3

\* tenacity: stop_after_attempt(n) of download_pdf
download_pdf_stop == 3

\* a stop condition that allows one attempt more
stop_after_attempt_OneMore(max_attempt_number, attempt_number) ==
    attempt_number > max_attempt_number

stop_after_attempt(max_attempt_number, attempt_number) ==
    attempt_number >= max_attempt_number

\* tenacity: wait_exponential(multiplier, min, max) after the given attempt
wait_exponential(multiplier, min, max, attempt_number) ==
    Max(Max(0, min), Min(multiplier * 2^(attempt_number - 1), max))

\* @retry(stop=stop_after_attempt(3), wait=wait_exponential(multiplier=1, min=2, max=10))
NetworkWait(attempt_number) == wait_exponential(1, 2, 10, attempt_number)

RetryError == "RetryError"

\* openAccessPdf of a candidate: missing, present with an empty url, or a url
PdfInfos == {None, "", "http://pdf"}

\* the i-th candidate of an answer of the search service
Candidate(i, pdf_info) ==
    [title |-> <<"p", ToString(i)>>, openAccessPdf |-> pdf_info]

\* params = {"query": topic, "limit": limit * 2, "fields": ...}
SearchParams(topic, limit) == [query |-> topic, limit |-> limit * 2]

\* what session.get(url, params=params) can do: the service sends at most
\* params.limit candidates
SearchResponses(limit) ==
    {[kind |-> "error", text |-> "timeout"]}
    \cup {[kind |-> "ok", data |-> [i \in DOMAIN infos |-> Candidate(i, infos[i])]] :
            infos \in UNION {[1..m -> PdfInfos] :
                               m \in 0..SearchParams(Topic, limit).limit}}

\* for paper in data.get("data", []): ... if len(papers) >= limit: break
\* the result is the list of papers and the number of candidates looked at
RECURSIVE CollectPapers(_, _, _, _)
CollectPapers(data, i, papers, limit) ==
    IF i > Len(data) THEN [papers |-> papers, scanned |-> Len(data)]
    ELSE LET pdf_info == data[i].openAccessPdf
         IN IF pdf_info # None /\ pdf_info # ""
            THEN LET ps == Append(papers, [title |-> data[i].title, pdf_url |-> pdf_info])
                 IN IF Len(ps) >= limit THEN [papers |-> ps, scanned |-> i]
                    ELSE CollectPapers(data, i + 1, ps, limit)
            ELSE CollectPapers(data, i + 1, papers, limit)

\* a search_papers that returns the first candidates whether they have a PDF or not
search_papers_AnyCandidate(topic, limit, response) ==
    IF response.kind = "error"
    THEN [result |-> Raises("Failed to search papers: " \o response.text),
          log |-> <<"Search request failed: " \o response.text>>]
    ELSE LET n == Min(limit, Len(response.data))
         IN [result |-> [kind |-> "return",
                         value |-> [i \in 1..n |->
                                       [title |-> response.data[i].title,
                                        pdf_url |-> response.data[i].openAccessPdf]],
                         scanned |-> n],
             log |-> <<>>]

\* one execution of the body of search_papers
search_papers(topic, limit, response) ==
    IF response.kind = "error"
    THEN [result |-> Raises("Failed to search papers: " \o response.text),
          log |-> <<"Search request failed: " \o response.text>>]
    ELSE LET found == CollectPapers(response.data, 1, <<>>, limit)
         IN [result |-> [kind |-> "return", value |-> found.papers,
                         scanned |-> found.scanned],
             log |-> <<>>]

\* what the server sends for a pdf_url
Bodies == {PdfMagic \o <<"-">>, <<"<", "h", "t", "m", "l">>, <<>>}

\* what happens around one execution of the body of download_pdf:
\*   pre      the failing system call of the validation of an existing file
\*   http     "request_error": session.get or raise_for_status raises RequestException
\*   cut      "stream": iter_content raises RequestException after `written` bytes
\*            "write":  open or f.write raises OSError after `written` bytes
\*   post     the failing system call of the validation of the downloaded file
DownloadEnvs ==
    {[pre |-> f, http |-> "request_error", body |-> <<>>, cut |-> "none",
      written |-> 0, post |-> "none"] : f \in Faults}
    \cup {[pre |-> f, http |-> "ok", body |-> b, cut |-> "none",
           written |-> Len(b), post |-> g] : f \in Faults, g \in Faults, b \in Bodies}
    \cup UNION {{[pre |-> f, http |-> "ok", body |-> b, cut |-> c,
                   written |-> k, post |-> "none"] :
                     f \in Faults, c \in {"stream", "write"}, k \in 0..Len(b)} :
                 b \in Bodies}

\* the line download_pdf logs when the downloaded file fails validate_pdf
NotAValidDownload == "Downloaded file is not a valid PDF"

\* a download_pdf that never looks at an existing file
download_pdf_NoSkip(paper, d, e) ==
    LET pdf_path == PdfPath(paper)
        d2 == write(d, pdf_path, e.body)
        v2 == validate_pdf(FileAt(d2, pdf_path), e.post)
    IN IF e.http = "request_error"
       THEN [disk |-> unlink(d, pdf_path), result |-> Returned(None),
             calls |-> <<"GET">>, log |-> <<"Download failed">>]
       ELSE IF v2.kind = "return" /\ v2.value
            THEN [disk |-> d2, result |-> Returned(pdf_path), calls |-> <<"GET">>,
                  log |-> <<>>]
            ELSE [disk |-> unlink(d2, pdf_path), result |-> Returned(None),
                  calls |-> <<"GET">>, log |-> <<"Downloaded file is not a valid PDF">>]

\* one execution of the body of download_pdf on the papers directory d
download_pdf(paper, d, e) ==
    LET pdf_path == PdfPath(paper)
        v1 == validate_pdf(FileAt(d, pdf_path), e.pre)
    IN IF pdf_path \in DOMAIN d /\ v1.kind = "raise"
       THEN [disk |-> d, result |-> Raises(v1.text), calls |-> OsErrors(v1), log |-> <<>>]
       ELSE IF pdf_path \in DOMAIN d /\ v1.value
       THEN \* Valid PDF already exists
            [disk |-> d, result |-> Returned(pdf_path), calls |-> <<>>, log |-> <<>>]
       ELSE
       LET \* an existing file that is not a valid PDF is deleted
           removed == IF pdf_path \in DOMAIN d THEN OsErrors(v1) \o <<"unlink">> ELSE <<>>
           d1 == unlink(d, pdf_path)
       IN IF e.http = "request_error"
          THEN [disk |-> d1, result |-> Returned(None),
                calls |-> removed \o <<"GET">>, log |-> <<"Download failed">>]
          ELSE IF e.cut = "stream"
          THEN \* except RequestException: the partial file is removed
               [disk |-> d1, result |-> Returned(None),
                calls |-> removed \o <<"GET", "unlink">>, log |-> <<"Download failed">>]
          ELSE IF e.cut = "write"
          THEN \* OSError is not a RequestException: what was written stays
               [disk |-> write(d1, pdf_path, Take(e.body, e.written)),
                result |-> Raises("OSError"),
                calls |-> removed \o <<"GET", "write:OSError">>, log |-> <<>>]
          ELSE
          LET d2 == write(d1, pdf_path, e.body)
              v2 == validate_pdf(FileAt(d2, pdf_path), e.post)
          IN IF v2.kind = "raise"
             THEN [disk |-> d2, result |-> Raises(v2.text),
                   calls |-> removed \o <<"GET">> \o OsErrors(v2), log |-> <<>>]
             ELSE IF v2.value
             THEN [disk |-> d2, result |-> Returned(pdf_path),
                   calls |-> removed \o <<"GET">>, log |-> <<>>]
             ELSE [disk |-> d1, result |-> Returned(None),
                   calls |-> removed \o <<"GET">> \o OsErrors(v2) \o <<"unlink">>,
                   log |-> <<NotAValidDownload>>]

\* a whole download_pdf call under @retry when the environment e lasts for the
\* call: the body runs again after an exception, until it returns or
\* stop_after_attempt says stop
RECURSIVE DownloadCall(_, _, _, _)
DownloadCall(paper, d, e, attempt_number) ==
    LET r == download_pdf(paper, d, e)
    IN IF r.result.kind = "return" THEN r
       ELSE IF stop_after_attempt(download_pdf_stop, attempt_number)
       THEN [r EXCEPT !.result = Raises(RetryError)]
       ELSE LET again == DownloadCall(paper, r.disk, e, attempt_number + 1)
            IN [again EXCEPT !.calls = r.calls \o @, !.log = r.log \o @]

\* what search_papers(topic) gives process_topic: up to MaxDocs papers
PaperLists == UNION {[1..n -> Papers] : n \in 0..MaxDocs}

\* a process_topic that counts every paper as downloaded
KeepDownloaded_Any(downloaded_papers, paper, pdf_path) ==
    Append(downloaded_papers,
           [title |-> paper.title, pdf_url |-> paper.pdf_url, local_path |-> pdf_path])

\* if pdf_path: paper["local_path"] = str(pdf_path); downloaded_papers.append(paper)
KeepDownloaded(downloaded_papers, paper, pdf_path) ==
    IF pdf_path # None
    THEN Append(downloaded_papers,
                [title |-> paper.title, pdf_url |-> paper.pdf_url, local_path |-> pdf_path])
    ELSE downloaded_papers

\* papers == [] after the search
NoPapersFound ==
    [kind |-> "return",
     value |-> [success |-> FALSE, message |-> "No papers found with PDF links",
                papers |-> <<>>],
     saved |-> FALSE, metadata |-> <<>>]

\* the end of process_topic: what it returns, whether save_metadata was called
\* and the papers of the metadata file
ProcessTopicEnd(downloaded_papers) ==
    IF downloaded_papers # <<>>
    THEN [kind |-> "return",
          value |-> [success |-> TRUE,
                     message |-> "Successfully downloaded "
                                 \o ToString(Len(downloaded_papers)) \o " valid PDFs",
                     papers |-> downloaded_papers],
          saved |-> TRUE, metadata |-> downloaded_papers]
    ELSE [kind |-> "return",
          value |-> [success |-> FALSE, message |-> "Failed to download any valid PDFs",
                     papers |-> <<>>],
          saved |-> FALSE, metadata |-> <<>>]

----------------------------------------------------------------------------
(* paper_analyzer.py and draft_generator.py: one logical LLM request *)

GEMINI_MODEL == "gemini-2.0-flash"

AVAILABLE_MODELS ==
    <<"gemini-2.0-flash", "gemini-2.0-flash-lite", "gemini-2.5-flash", "gemini-2.5-pro">>

\* models_to_try = [self.model] + self.model_fallbacks
models_to_try == <<GEMINI_MODEL>> \o AVAILABLE_MODELS

SECTION_ONTOLOGY ==
    <<"abstract", "introduction", "related_work", "methodology", "experiments",
      "results", "discussion", "conclusion", "references">>

required_fields == <<"key_findings", "contributions", "limitations", "future_work">>

Range(s) == {s[i] : i \in DOMAIN s}

LlmOps == {"section_paper", "extract_insights", "compare_papers", "generate_draft"}

\* a Python value decoded from JSON: a dict (keys |-> values) or a list
Dict(items) == [type |-> "dict", items |-> items]
List == [type |-> "list", items |-> EmptyDict]

\* the JSON objects a model answers a request with: nothing, or part of what was asked
Objects(op) ==
    CASE op = "section_paper"    -> {EmptyDict, [abstract |-> "A"]}
      [] op = "extract_insights" -> {EmptyDict, [key_findings |-> <<"F">>]}
      [] op = "compare_papers"   -> {EmptyDict, [summary |-> "S"]}
      [] op = "generate_draft"   -> {EmptyDict}

\* what generate_content does: it raises, or it answers with a text.  A text is
\* described by its shape: fenced in a markdown code block or not, and what is
\* inside: nothing (""), a JSON object, a JSON array, or prose.
ApiError == [kind |-> "raise", fence |-> FALSE, body |-> "", object |-> EmptyDict]

Text(fence, body, object) ==
    [kind |-> "text", fence |-> fence, body |-> body, object |-> object]

EmptyText == Text(FALSE, "", EmptyDict)

Responses(op) ==
    {ApiError, EmptyText}
    \cup {Text(f, b, EmptyDict) : f \in BOOLEAN, b \in {"prose", "array"}}
    \cup {Text(f, "object", o) : f \in BOOLEAN, o \in Objects(op)}

\* json.loads on the inside of a text
Decoded(text) ==
    IF text.body = "object" THEN Dict(text.object) ELSE List

\* json.loads(json_str); on JSONDecodeError the first ```json ... ``` block is
\* tried, and if that fails too, or there is no block, the result is {}
safe_json_loads(text) ==
    IF ~text.fence /\ text.body \in {"object", "array"}
    THEN Decoded(text)
    ELSE IF text.fence /\ text.body \in {"object", "array"}
    THEN Decoded(text)
    ELSE Dict(EmptyDict)

\* for key in keys: if key not in d: d[key] = default
WithDefaults(items, keys, default) ==
    [k \in DOMAIN items \cup Range(keys) |->
        IF k \in DOMAIN items THEN items[k] ELSE default]

\* {section: "" for section in SECTION_ONTOLOGY}
EmptySections == [k \in Range(SECTION_ONTOLOGY) |-> ""]

_get_default_insights ==
    [key_findings |-> <<"Analysis temporarily unavailable - API issue">>,
     contributions |-> <<>>, limitations |-> <<>>, future_work |-> <<>>]

_get_default_comparison(num_papers, topic) ==
    [common_methodologies |-> <<"Unable to extract methodologies">>,
     divergent_findings |-> <<"Analysis temporarily unavailable">>,
     unique_contributions |-> <<>>,
     research_gaps |-> <<>>,
     summary |-> "Cross-paper analysis for " \o ToString(num_papers) \o " papers on '"
                 \o topic \o "' is temporarily unavailable.",
     num_papers |-> num_papers, topic |-> topic, timestamp |-> "now"]

\* the arguments of a request: usable is false for a text shorter than 100
\* characters (section_paper), for sections without content (extract_insights)
\* and for fewer than 2 analyses (compare_papers)
LlmArgs(op) ==
    {[fn |-> op, usable |-> u, num_papers |-> IF u THEN 2 ELSE 1, topic |-> Topic] :
        u \in (IF op = "generate_draft" THEN {TRUE} ELSE BOOLEAN)}

\* what a request gives back before any model is called
Unusable(a) ==
    CASE a.fn = "section_paper"    -> EmptySections
      [] a.fn = "extract_insights" -> _get_default_insights
      [] a.fn = "compare_papers"   ->
            [error |-> "Insufficient papers for comparison", num_papers |-> a.num_papers]

\* what the loop over models_to_try does with one response:
\* [done |-> TRUE, value |-> v] is "return v", [done |-> FALSE] is "continue"
Continue == [done |-> FALSE, value |-> None]
Return(v) == [done |-> TRUE, value |-> v]

section_paper(response) ==
    IF response.kind = "raise" THEN Continue
    ELSE IF response.body = "" THEN Continue
    ELSE LET sections == safe_json_loads(response)
         IN IF sections.type # "dict"
            THEN Continue      \* sections[section] = "" raises TypeError, caught
            ELSE Return(WithDefaults(sections.items, SECTION_ONTOLOGY, ""))

\* a required field that is missing or empty becomes []; the values the
\* models supply for these fields are lists
extract_insights(response) ==
    IF response.kind = "raise" THEN Continue
    ELSE IF response.body = "" THEN Continue
    ELSE LET insights == safe_json_loads(response)
         IN IF insights.type # "dict"
            THEN Continue      \* insights[field] = [] raises TypeError, caught
            ELSE Return(WithDefaults(insights.items, required_fields, <<>>))

compare_papers(a, response) ==
    IF response.kind = "raise" THEN Continue
    ELSE IF response.body = "" THEN Continue
    ELSE LET comparison == safe_json_loads(response)
         IN IF comparison.type # "dict"
            THEN Continue      \* comparison["num_papers"] = ... raises TypeError, caught
            ELSE Return([num_papers |-> a.num_papers, topic |-> a.topic,
                         timestamp |-> "now"] @@ comparison.items)

\* a generate_draft that answers with a placeholder when every model failed
DraftExhausted_Placeholder == Returned("Draft unavailable")

\* raise DraftGenerationError("All models failed to generate draft")
DraftExhausted == Raises("All models failed to generate draft")

generate_draft(response) ==
    IF response.kind = "raise" THEN Continue
    ELSE IF response.body = "" THEN Continue
    ELSE Return(response)

OnResponse(a, response) ==
    CASE a.fn = "section_paper"    -> section_paper(response)
      [] a.fn = "extract_insights" -> extract_insights(response)
      [] a.fn = "compare_papers"   -> compare_papers(a, response)
      [] a.fn = "generate_draft"   -> generate_draft(response)

\* a request that raises whenever every model of the chain was passed over
Exhausted_Raises(a) == Raises("All models failed")

\* after the loop: every model of the chain was passed over
Exhausted(a) ==
    CASE a.fn = "section_paper"    -> Returned(EmptySections)
      [] a.fn = "extract_insights" -> Returned(_get_default_insights)
      [] a.fn = "compare_papers"   -> Returned(_get_default_comparison(a.num_papers, a.topic))
      [] a.fn = "generate_draft"   -> DraftExhausted

\* stop_after_attempt(n) of the request's retry decorator; compare_papers has none
LlmStop(op) ==
    CASE op = "section_paper"    -> 3
      [] op = "extract_insights" -> 2
      [] op = "compare_papers"   -> 1
      [] op = "generate_draft"   -> 3

\* wait_exponential(multiplier=1, min=.., max=..) of the request's retry decorator
LlmWait(op, attempt_number) ==
    CASE op = "extract_insights" -> wait_exponential(1, 2, 5, attempt_number)
      [] OTHER                   -> wait_exponential(1, 4, 10, attempt_number)

----------------------------------------------------------------------------
(* text_extraction.py and paper_analyzer.py: the per-document stages *)

\* name of the i-th file of a directory listing
DocName(i) == "doc" \o ToString(i)

\* a file as pdf_dir.glob("*") lists it, with what will happen to it:
\*   fault       the failing system call when process_all_pdfs validates it
\*   extraction  "ok", or "raises": process_pdf or save_extracted raises for it
\* The kinds of files: a PDF that is extracted, a PDF whose extraction raises,
\* an HTML page saved as .pdf, a file that is no .pdf, a PDF whose stat() fails
PdfKinds == {"pdf", "pdf_raises", "html", "other", "pdf_stat_fails"}

PdfEntry(i, kind) ==
    [name |-> DocName(i),
     suffix |-> IF kind = "other" THEN ".txt" ELSE ".pdf",
     content |-> IF kind = "html" THEN <<"<", "h", "t", "m", "l">> ELSE PdfMagic \o <<"-">>,
     fault |-> IF kind = "pdf_stat_fails" THEN "stat" ELSE "none",
     extraction |-> IF kind = "pdf_raises" THEN "raises" ELSE "ok"]

\* the listings of the papers directory
PdfListings ==
    UNION {{[i \in 1..n |-> PdfEntry(i, kinds[i])] : kinds \in [1..n -> PdfKinds]} :
             n \in 0..MaxDocs}

ExtractionFailure == "Text extraction failed"

\* the file of a directory listing as validate_pdf sees it
ListedFile(f) == [exists |-> TRUE, suffix |-> f.suffix, content |-> f.content]

\* for file_path in all_files: if self.validate_pdf(file_path): pdf_files.append(file_path)
\* the result is the list, or the exception that validate_pdf let through
RECURSIVE FilterValid(_, _, _)
FilterValid(all_files, i, pdf_files) ==
    IF i > Len(all_files) THEN [kind |-> "return", value |-> pdf_files]
    ELSE LET f == all_files[i]
             v == TextExtractor_validate_pdf(ListedFile(f), f.fault)
         IN IF v.kind = "raise" THEN [kind |-> "raise", text |-> v.text]
            ELSE FilterValid(all_files, i + 1,
                             IF v.value THEN Append(pdf_files, f) ELSE pdf_files)

\* the texts of the TextExtractionError of extract_raw_text and of process_pdf
\* for a file that validate_pdf turned down
NotAValidPdf == "File is not a valid PDF"
InvalidOrCorrupted == "Invalid or corrupted PDF file"

\* what PyMuPDF makes of a file that passed validate_pdf: "ok", or "raises"
\* (fitz.open fails on it, or no page has text)
Extractions == {"ok", "raises"}

\* an extract_raw_text without its validation
extract_raw_text_Unchecked(pdf_path, fault, extraction) ==
    IF extraction = "raises"
    THEN [kind |-> "raise", text |-> ExtractionFailure, opened |-> <<"extract_raw_text">>]
    ELSE [kind |-> "return", value |-> pdf_path.content, opened |-> <<"extract_raw_text">>]

\* the result says what was returned or raised and which functions opened the
\* file after a validation (fitz.open, or open for the hash), in order
extract_raw_text(pdf_path, fault, extraction) ==
    LET v == TextExtractor_validate_pdf(pdf_path, fault)
    IN IF v.kind = "raise"
       THEN \* the validation is outside the try block
            [kind |-> "raise", text |-> v.text, opened |-> <<>>]
       ELSE IF ~v.value
       THEN [kind |-> "raise", text |-> NotAValidPdf, opened |-> <<>>]
       ELSE IF extraction = "raises"
       THEN \* except Exception as e: raise TextExtractionError
            [kind |-> "raise", text |-> ExtractionFailure, opened |-> <<"extract_raw_text">>]
       ELSE [kind |-> "return", value |-> pdf_path.content, opened |-> <<"extract_raw_text">>]

\* process_pdf after its validation: extract_metadata opens the file and
\* swallows what fitz raises, extract_raw_text validates again and opens it,
\* generate_file_hash reads it whole
ProcessValidated(pdf_path, fault, extraction) ==
    LET raw_text == extract_raw_text(pdf_path, fault, extraction)
        so_far == <<"extract_metadata">> \o raw_text.opened
    IN IF raw_text.kind = "raise"
       THEN [kind |-> "raise", text |-> raw_text.text, opened |-> so_far]
       ELSE [kind |-> "return", value |-> raw_text.value,
             opened |-> Append(so_far, "generate_file_hash")]

process_pdf(pdf_path, fault, extraction) ==
    LET v == TextExtractor_validate_pdf(pdf_path, fault)
    IN IF v.kind = "raise"
       THEN [kind |-> "raise", text |-> v.text, opened |-> <<>>]
       ELSE IF ~v.value
       THEN [kind |-> "raise", text |-> InvalidOrCorrupted, opened |-> <<>>]
       ELSE ProcessValidated(pdf_path, fault, extraction)

\* for pdf_path in pdf_files: try: ... saved_files.append(...) except Exception: log
\* opened lists the files that process_pdf opened, by name
RECURSIVE ExtractEach(_, _, _, _, _, _)
ExtractEach(pdf_files, i, saved_files, lines, made, opened) ==
    IF i > Len(pdf_files)
    THEN [kind |-> "return", value |-> saved_files, log |-> lines, calls |-> made,
          opened |-> opened]
    ELSE LET f == pdf_files[i]
             called == Append(made, "process_pdf:" \o f.name)
             data == process_pdf(ListedFile(f), f.fault, f.extraction)
             seen == IF data.opened = <<>> THEN opened ELSE Append(opened, f.name)
         IN IF data.kind = "raise"
            THEN ExtractEach(pdf_files, i + 1, saved_files,
                             Append(lines, "Failed to process " \o f.name \o ".pdf: "
                                           \o data.text),
                             called, seen)
            ELSE ExtractEach(pdf_files, i + 1,
                             Append(saved_files, f.name \o ".json"), lines, called, seen)

process_all_pdfs(all_files) ==
    LET pdf_files == FilterValid(all_files, 1, <<>>)
    IN IF pdf_files.kind = "raise"
       THEN [kind |-> "raise", text |-> pdf_files.text, log |-> <<>>, calls |-> <<>>,
             opened |-> <<>>]
       ELSE ExtractEach(pdf_files.value, 1, <<>>, <<>>, <<>>, <<>>)

\* an extracted-text file as extracted_dir.glob("*.json") lists it, with what
\* analysing it leads to:
\*   "success"      analyze_paper returns an analysis with status success
\*   "no_text"      the file has no normalized_text: a failed analysis
\*   "raises"       reading the file or the analysis raises: a failed analysis
\*                  built from {"pdf_name": name} only
\*   "save_raises"  save_analysis raises
AnalysisKinds == {"success", "no_text", "raises", "save_raises"}

\* what section_paper can return for a paper
SectionPaperResults ==
    {EmptySections}
    \cup {section_paper(r).value :
             r \in {x \in Responses("section_paper") : section_paper(x).done}}

\* what extract_insights can return for the sections of a paper:
\* if not any(sections.values()): return self._get_default_insights()
ExtractInsightsResults(sections) ==
    IF \A k \in DOMAIN sections : sections[k] = ""
    THEN {_get_default_insights}
    ELSE {_get_default_insights}
         \cup {extract_insights(r).value :
                  r \in {x \in Responses("extract_insights") : extract_insights(x).done}}

\* the i-th extracted-text file: sections and insights are what section_paper
\* and extract_insights return when the analysis gets that far
JsonEntry(i, kind, sections, insights) ==
    [name |-> DocName(i), analysis |-> kind, sections |-> sections, insights |-> insights]

\* a paper with an abstract and one key finding
Sectioned == WithDefaults([abstract |-> "A"], SECTION_ONTOLOGY, "")
Found == WithDefaults([key_findings |-> <<"F">>], required_fields, <<>>)

JsonListings ==
    UNION {{[i \in 1..n |-> JsonEntry(i, kinds[i], Sectioned, Found)] :
              kinds \in [1..n -> AnalysisKinds]} : n \in 0..MaxDocs}

\* one extracted-text file with every way its analysis can go
JsonFiles ==
    UNION {{JsonEntry(1, kind, sections, insights) :
              kind \in AnalysisKinds, insights \in ExtractInsightsResults(sections)} :
             sections \in SectionPaperResults}

\* _create_failed_analysis(data, error_msg)
_create_failed_analysis(pdf_path, error_msg) ==
    [pdf_path |-> pdf_path, analysis_status |-> "failed", error |-> error_msg,
     sections |-> EmptyDict, insights |-> _get_default_insights]

\* analyze_paper: never raises; the analysis says where the paper came from and how it went
analyze_paper(f) ==
    CASE f.analysis = "no_text" -> _create_failed_analysis(f.name, "No text content")
      [] f.analysis = "raises"  -> _create_failed_analysis("Unknown", "boom")
      [] OTHER ->
            [pdf_path |-> f.name, analysis_status |-> "success", error |-> "",
             sections |-> f.sections, insights |-> f.insights]

\* out_path = output_dir / f"{safe_name}_analysis.json"
AnalysisPath(analysis) == analysis.pdf_path \o "_analysis.json"

\* the loop of process_all_papers: analysis_paths, the successful analyses, the
\* error lines and the calls made
RECURSIVE AnalyzeEach(_, _, _, _, _, _)
AnalyzeEach(json_files, i, analysis_paths, analyses, lines, made) ==
    IF i > Len(json_files)
    THEN [paths |-> analysis_paths, analyses |-> analyses, log |-> lines, calls |-> made]
    ELSE LET f == json_files[i]
             analysis == analyze_paper(f)
             called == Append(made, "analyze_paper:" \o f.name)
         IN IF f.analysis = "save_raises"
            THEN AnalyzeEach(json_files, i + 1, analysis_paths, analyses,
                             Append(lines, "Failed to analyze " \o f.name \o ".json: boom"),
                             called)
            ELSE AnalyzeEach(json_files, i + 1,
                             Append(analysis_paths, AnalysisPath(analysis)),
                             IF analysis.analysis_status = "success"
                             THEN Append(analyses, analysis) ELSE analyses,
                             lines, called)

\* comp_path = ANALYSIS_DIR / "cross_paper_comparison.json"
ComparisonPath == "cross_paper_comparison.json"

\* a process_all_papers that compares as soon as one analysis succeeded
process_all_papers_CompareOne(json_files, comparison_saved) ==
    LET r == AnalyzeEach(json_files, 1, <<>>, <<>>, <<>>, <<>>)
    IN IF Len(r.analyses) >= 1
       THEN [kind |-> "return", value |-> r.paths, compared |-> r.analyses,
             log |-> r.log,
             calls |-> r.calls \o <<"compare_papers", "write:" \o ComparisonPath>>]
       ELSE [kind |-> "return", value |-> r.paths, compared |-> <<>>,
             log |-> r.log, calls |-> r.calls]

\* comparison_saved says whether writing cross_paper_comparison.json succeeds;
\* compared is the list of analyses handed to compare_papers
process_all_papers(json_files, comparison_saved) ==
    LET r == AnalyzeEach(json_files, 1, <<>>, <<>>, <<>>, <<>>)
    IN IF Len(r.analyses) >= 2
       THEN [kind |-> "return", value |-> r.paths, compared |-> r.analyses,
             log |-> IF comparison_saved THEN r.log
                     ELSE Append(r.log, "Cross-paper comparison failed: boom"),
             calls |-> r.calls \o <<"compare_papers">>
                       \o (IF comparison_saved THEN <<"write:" \o ComparisonPath>>
                           ELSE <<>>)]
       ELSE [kind |-> "return", value |-> r.paths, compared |-> <<>>,
             log |-> r.log, calls |-> r.calls]

----------------------------------------------------------------------------
(* draft_generator.py: DraftGenerator.generate_review *)

\* a file of analysis_dir.glob("*_analysis.json"): the analysis saved in it, or
\* a file json.load cannot read
AnalysisFileKinds == {"success", "no_text", "raises", "unreadable"}

AnalysisFile(i, kind) ==
    [name |-> DocName(i) \o "_analysis.json",
     readable |-> kind # "unreadable",
     analysis |-> analyze_paper(JsonEntry(i, IF kind = "unreadable" THEN "raises" ELSE kind,
                                          Sectioned, Found))]

\* the listings of the analysis directory
AnalysisListings ==
    UNION {{[i \in 1..n |-> AnalysisFile(i, kinds[i])] :
              kinds \in [1..n -> AnalysisFileKinds]} : n \in 0..MaxDocs}

\* a load_analyses that keeps every analysis it can read
load_analyses_AnyStatus(analysis_files) ==
    LET readable == SelectSeq(analysis_files, LAMBDA f : f.readable)
    IN [i \in DOMAIN readable |-> readable[i].analysis]

\* for file_path in analysis_files: ... if analysis.get("analysis_status") == "success"
load_analyses(analysis_files) ==
    LET kept == SelectSeq(analysis_files,
                          LAMBDA f : f.readable /\ f.analysis.analysis_status = "success")
    IN [i \in DOMAIN kept |-> kept[i].analysis]

\* topics as character sequences: two different topics with the same sanitized name
Topics == {<<"a", "/", "b">>, <<"a", "_", "b">>, <<"c">>}

DraftText == "draft text"

\* what generate_draft gives generate_review, and whether save_draft can write
DraftOutcomes ==
    {[draft |-> d, saved |-> w] :
        d \in {Returned(DraftText), Raises(RetryError)}, w \in BOOLEAN}

\* f"{safe_topic}_review_draft_{timestamp}.txt"
DraftPath(topic, timestamp) ==
    Join(sanitize_filename(topic)) \o "_review_draft_" \o timestamp \o ".txt"

\* generate_review(topic): result is what it returns, drafted the analyses it
\* hands to prepare_analysis_data and generate_draft
generate_review(topic, analysis_files, o) ==
    LET analyses == load_analyses(analysis_files)
        failure(message) == [success |-> FALSE, message |-> message,
                             draft |-> None, draft_path |-> None]
    IN IF analyses = <<>>
       THEN [result |-> failure("No successful analysis files found"),
             drafted |-> <<>>, calls |-> <<"load_analyses">>]
       ELSE IF o.draft.kind = "raise"
       THEN [result |-> failure("Draft generation failed: " \o o.draft.text),
             drafted |-> analyses, calls |-> <<"load_analyses", "generate_draft">>]
       ELSE IF ~o.saved
       THEN [result |-> failure("Draft generation failed: OSError"),
             drafted |-> analyses,
             calls |-> <<"load_analyses", "generate_draft", "write:OSError">>]
       ELSE [result |-> [success |-> TRUE,
                         message |-> "Successfully generated draft from "
                                     \o ToString(Len(analyses)) \o " papers",
                         draft |-> o.draft.value,
                         draft_path |-> DraftPath(topic, "now")],
             drafted |-> analyses,
             calls |-> <<"load_analyses", "generate_draft", "save_draft">>]

----------------------------------------------------------------------------
(* Two runs over the shared data directories *)

\* the stages of a run, as app.py and __main__.py call them
ConcurrentStages ==
    <<"process_topic", "process_all_pdfs", "process_all_papers", "generate_review">>

\* the two runs
RunIds == {"1", "2"}

\* time.strftime("%Y%m%d_%H%M%S"): two drafts saved in the same second or not
Timestamps == {"20260101_000000", "20260101_000001"}

\* the file name sanitize_filename gives a paper
PaperName(paper) == Join(sanitize_filename(paper.title))

\* the files of the four data directories
PapersDir(name) == "papers/" \o name
ExtractedDir(name) == "extracted_text/" \o name
AnalysisDir(name) == "analysis/" \o name
DraftsDir(name) == "drafts/" \o name

\* meta_path = save_dir / f"{safe_topic}_metadata.json"
MetadataPath(topic) == Join(sanitize_filename(topic)) \o "_metadata.json"

\* the names of the papers whose PDF is in the papers directory
NamesWithPdf(d) ==
    {PaperName(paper) : paper \in {q \in Papers : PapersDir(PdfPath(q)) \in DOMAIN d}}

\* the names of the papers whose extracted text is in the extracted-text directory
NamesExtracted(d) ==
    {PaperName(paper) :
        paper \in {q \in Papers : ExtractedDir(PaperName(q) \o ".json") \in DOMAIN d}}

\* the paths a stage of a run writes, given the directories as they are; a
\* PDF that is already there is not downloaded again
StageWrites(stage, run, d, timestamp) ==
    CASE stage = "process_topic" ->
            (IF PapersDir(PdfPath(run.paper)) \in DOMAIN d THEN {}
             ELSE {PapersDir(PdfPath(run.paper))})
            \cup {PapersDir(MetadataPath(run.topic))}
      [] stage = "process_all_pdfs" ->
            {ExtractedDir(name \o ".json") : name \in NamesWithPdf(d)}
      [] stage = "process_all_papers" ->
            {AnalysisDir(name \o "_analysis.json") : name \in NamesExtracted(d)}
            \cup (IF Cardinality(NamesExtracted(d)) >= 2
                  THEN {AnalysisDir(ComparisonPath)} ELSE {})
      [] stage = "generate_review" ->
            {DraftsDir(DraftPath(run.topic, timestamp))}

\* the files after run id wrote the paths: a file is the list of its writers
WriteAll(d, paths, id) ==
    [path \in DOMAIN d \cup paths |->
        IF path \in paths
        THEN (IF path \in DOMAIN d THEN d[path] ELSE <<>>) \o <<id>>
        ELSE d[path]]

\* the stages run id has executed
StagesDone(id, done) ==
    Cardinality({i \in DOMAIN done :
                    done[i] \in {id \o ":" \o ConcurrentStages[k] :
                                   k \in DOMAIN ConcurrentStages}})

----------------------------------------------------------------------------
(* pipeline.py: the stage graph *)

\* graph.add_edge(...) calls of build_pipeline, in declaration order
Edges ==
    << <<"process_input", "planner">>,
       <<"planner", "search_articles">>,
       <<"search_articles", "article_decisions">>,
       <<"article_decisions", "download_articles">>,
       <<"download_articles", "extract_text">>,
       <<"extract_text", "normalize_text">>,
       <<"normalize_text", "semantic_section">>,
       <<"semantic_section", "validate_sections">>,
       <<"validate_sections", "store_sections">>,
       <<"store_sections", "paper_analyzer">>,
       <<"paper_analyzer", "cross_compare">>,
       <<"cross_compare", "write_abstract">>,
       <<"write_abstract", "write_introduction">>,
       <<"write_introduction", "write_methods">>,
       <<"write_methods", "write_results">>,
       <<"write_results", "write_conclusion">>,
       <<"write_conclusion", "write_references">>,
       <<"write_references", "aggregate_paper">>,
       <<"aggregate_paper", "critique_paper">>,
       <<"revise_paper", "critique_paper">>,
       <<"final_draft", "END">> >>

\* graph.set_entry_point
EntryPoint == "process_input"

\* a path map that sends both decisions to revise_paper
PathMap_AlwaysRevise(decision) == "revise_paper"

\* the path map of add_conditional_edges("critique_paper", revise_node, {...})
PathMap(decision) ==
    CASE decision = "revise_paper" -> "revise_paper"
      [] decision = "final_draft"  -> "final_draft"

\* the stage the run-only helpers iterate over before the critique (for fn in [...])
GenerateStages ==
    << "extract_text", "normalize_text", "semantic_section",
       "validate_sections", "store_sections",
       "paper_analyzer", "cross_compare",
       "write_abstract", "write_introduction", "write_methods",
       "write_results", "write_conclusion", "write_references",
       "aggregate_paper" >>

\* the five calls of run_search_only
SearchStages ==
    << "process_input", "planner", "search_articles",
       "article_decisions", "download_articles" >>

CycleStages == {"critique_paper", "revise_paper", "final_draft"}

GraphNodes == {Edges[i][1] : i \in DOMAIN Edges} \cup CycleStages

Qualities == {"adequate", "inadequate"}

----------------------------------------------------------------------------
(* pipeline.py: the node functions it imports.  A node takes the state and *)
(* returns the state with its output fields set.                           *)

\* every node narrates its transition in the progress log
NodeBase(n, st) ==
    Merge(st, [current_step |-> n, step_log |-> Append(st.step_log, n)])

download_articles_node(st) ==
    Merge(NodeBase("download_articles", st), [downloaded_pdfs |-> "pdfs"])

aggregate_paper_node(st) ==
    Merge(NodeBase("aggregate_paper", st), [aggregated_draft |-> "draft"])

\* the critique stores its quality signal q
critique_paper_node(st, q) ==
    Merge(NodeBase("critique_paper", st), [critique |-> q])

\* increments revision_count and rewrites aggregated_draft
revise_paper_node(st) ==
    Merge(NodeBase("revise_paper", st),
          [revision_count  |-> st.revision_count + 1,
           aggregated_draft |-> "revised draft"])

\* falls back to the best available aggregated draft
final_draft_node(st) ==
    Merge(NodeBase("final_draft", st),
          [final_draft |-> IF "aggregated_draft" \in DOMAIN st
                           THEN st.aggregated_draft
                           ELSE "no draft available"])

\* the conditional edge: revise while below the cap and the critique is inadequate
revise_node(st) ==
    IF /\ st.revision_count < Cap
       /\ "critique" \in DOMAIN st
       /\ st.critique = "inadequate"
    THEN "revise_paper"
    ELSE "final_draft"

\* a node that completes
Node(n, st, q) ==
    CASE n = "download_articles" -> download_articles_node(st)
      [] n = "aggregate_paper"   -> aggregate_paper_node(st)
      [] n = "critique_paper"    -> critique_paper_node(st, q)
      [] n = "revise_paper"      -> revise_paper_node(st)
      [] n = "final_draft"       -> final_draft_node(st)
      [] OTHER                   -> NodeBase(n, st)

\* a node whose collaborator fails: the message is appended to errors and the
\* state is returned; revise_paper still counts the revision and final_draft
\* still produces its output
NodeFailed(n, st) ==
    LET logged == Merge(NodeBase(n, st),
                        [errors |-> Append(st.errors, n)])
    IN CASE n = "revise_paper" ->
                Merge(logged, [revision_count |-> st.revision_count + 1])
         [] n = "final_draft" ->
                Merge(final_draft_node(st), [errors |-> Append(st.errors, n)])
         [] OTHER -> logged

\* the states a call of node n on st can return
NodeReturns(n, st) ==
    {Node(n, st, q) : q \in Qualities}
    \cup (IF Len(st.errors) < MaxErrors THEN {NodeFailed(n, st)} ELSE {})


----------------------------------------------------------------------------
(* app.py: PipelineState and the five node functions *)

\* Python truthiness of state.get("error"): None and the empty string are falsy
Truthy(e) == e # None /\ e # ""

\* dict[key] = value on an insertion-ordered dict of stage durations
DictSet(keys, k) ==
    IF \E i \in DOMAIN keys : keys[i] = k THEN keys ELSE Append(keys, k)

\* the list of n documents (papers, saved files, analysis paths)
Docs(n) == [i \in 1..n |-> "doc" \o ToString(i)]

\* results of PaperSearcher.process_topic
ProcessTopicResults ==
    {[success |-> TRUE,
      message |-> "Successfully downloaded " \o ToString(n) \o " valid PDFs",
      papers |-> Docs(n)] : n \in 1..MaxDocs}
    \cup {[success |-> FALSE, message |-> m, papers |-> <<>>] :
            m \in {"No papers found with PDF links",
                   "Failed to download any valid PDFs"}}

\* results of DraftGenerator.generate_review
GenerateReviewResults ==
    {[success |-> TRUE, message |-> "Successfully generated draft",
      draft |-> "draft text", draft_path |-> "draft path"]}
    \cup {[success |-> FALSE, message |-> m, draft |-> None, draft_path |-> None] :
            m \in {"No successful analysis files found",
                   "Draft generation failed: " \o RetryError}}

Outcomes(values) == {Returned(v) : v \in values} \cup {Raises(t) : t \in ExcTexts}

create_initial_state(topic) ==
    [topic |-> topic,
     papers |-> <<>>, search_success |-> FALSE, search_message |-> "",
     extracted_paths |-> <<>>, extraction_success |-> FALSE, extraction_message |-> "",
     analysis_paths |-> <<>>, analysis_success |-> FALSE, analysis_message |-> "",
     draft |-> None, draft_path |-> None, draft_success |-> FALSE, draft_message |-> "",
     error |-> None,
     progress |-> <<>>,
     stage_times |-> <<>>]

\* one progress entry: the icon of the step, then the status text
format_progress_message(step, status) == "[" \o step \o "] " \o status

\* the entries "   {i}. {title}..." of search_node
TitleLines(papers) ==
    [i \in DOMAIN papers |-> "   " \o ToString(i) \o ". " \o papers[i] \o "..."]

\* the entries "   {name}" for paths[:3]
PathLines(paths) ==
    [i \in 1..Min(Len(paths), PreviewLimit) |-> "   " \o paths[i]]

\* a search_node whose except clause logs the failure but leaves the error field alone
search_node_LosesException(st, o) ==
    LET s1 == [st EXCEPT !.progress =
                  Append(@, format_progress_message("search",
                               "Searching for papers on: '" \o st.topic \o "'"))]
        s2 == IF o.kind = "raise"
              THEN [s1 EXCEPT !.progress = Append(@, format_progress_message("error",
                                                        "Search failed: " \o o.text))]
              ELSE [s1 EXCEPT !.papers = o.value.papers,
                              !.search_success = o.value.success,
                              !.search_message = o.value.message,
                              !.error = IF o.value.success THEN @ ELSE o.value.message,
                              !.progress = Append(@, format_progress_message("complete",
                                                        o.value.message))]
    IN [s2 EXCEPT !.stage_times = DictSet(@, "search")]

search_node(st, o) ==
    LET s1 == [st EXCEPT !.progress =
                  Append(@, format_progress_message("search",
                               "Searching for papers on: '" \o st.topic \o "'"))]
        s2 == IF o.kind = "raise"
              THEN [s1 EXCEPT !.error = o.text,
                              !.progress = Append(@, format_progress_message("error",
                                                        "Search failed: " \o o.text))]
              ELSE LET result == o.value
                       s3 == [s1 EXCEPT !.papers = result.papers,
                                        !.search_success = result.success,
                                        !.search_message = result.message]
                   IN IF ~result.success
                      THEN [s3 EXCEPT !.error = result.message,
                                      !.progress = Append(@, format_progress_message("error",
                                                       "Search failed: " \o result.message))]
                      ELSE [s3 EXCEPT !.progress =
                               Append(@, format_progress_message("complete",
                                   "Found " \o ToString(Len(result.papers))
                                            \o " papers with PDFs"))
                               \o TitleLines(result.papers)]
    IN [s2 EXCEPT !.stage_times = DictSet(@, "search")]

extract_node(st, o) ==
    IF Truthy(st.error) THEN st
    ELSE
    LET s1 == [st EXCEPT !.progress =
                  Append(@, format_progress_message("extract",
                                                    "Extracting text from PDFs..."))]
        s2 == IF o.kind = "raise"
              THEN [s1 EXCEPT !.error = o.text,
                              !.progress = Append(@, format_progress_message("error",
                                                        "Extraction failed: " \o o.text))]
              ELSE LET saved_files == o.value
                       s3 == [s1 EXCEPT !.extracted_paths = saved_files,
                                        !.extraction_success = Len(saved_files) > 0,
                                        !.extraction_message =
                                            "Extracted " \o ToString(Len(saved_files))
                                                         \o " papers"]
                   IN IF saved_files # <<>>
                      THEN [s3 EXCEPT !.progress =
                               Append(@, format_progress_message("complete",
                                   "Successfully extracted text from "
                                   \o ToString(Len(saved_files)) \o " papers"))
                               \o PathLines(saved_files)]
                      ELSE [s3 EXCEPT !.error = "No text extracted from any PDF",
                                      !.progress = Append(@, format_progress_message("error",
                                          "Failed to extract text from any PDF"))]
    IN [s2 EXCEPT !.stage_times = DictSet(@, "extract")]

analyze_node(st, o) ==
    IF Truthy(st.error) THEN st
    ELSE
    LET s1 == [st EXCEPT !.progress =
                  Append(@, format_progress_message("analyze",
                                                    "Analyzing papers with Gemini AI..."))]
        s2 == IF o.kind = "raise"
              THEN [s1 EXCEPT !.error = o.text,
                              !.progress = Append(@, format_progress_message("error",
                                                        "Analysis failed: " \o o.text))]
              ELSE LET analysis_paths == o.value
                       s3 == [s1 EXCEPT !.analysis_paths = analysis_paths,
                                        !.analysis_success = Len(analysis_paths) > 0,
                                        !.analysis_message =
                                            "Analyzed " \o ToString(Len(analysis_paths))
                                                        \o " papers"]
                   IN IF analysis_paths # <<>>
                      THEN [s3 EXCEPT !.progress =
                               Append(@, format_progress_message("complete",
                                   "Successfully analyzed "
                                   \o ToString(Len(analysis_paths)) \o " papers"))
                               \o PathLines(analysis_paths)]
                      ELSE [s3 EXCEPT !.error = "No papers successfully analyzed",
                                      !.progress = Append(@, format_progress_message("error",
                                          "Failed to analyze any papers"))]
    IN [s2 EXCEPT !.stage_times = DictSet(@, "analyze")]

draft_node(st, o) ==
    IF Truthy(st.error) THEN st
    ELSE
    LET s1 == [st EXCEPT !.progress =
                  Append(@, format_progress_message("draft",
                                                    "Generating research review draft..."))]
        s2 == IF o.kind = "raise"
              THEN [s1 EXCEPT !.error = o.text,
                              !.progress = Append(@, format_progress_message("error",
                                                   "Draft generation failed: " \o o.text))]
              ELSE LET result == o.value
                       s3 == [s1 EXCEPT !.draft_success = result.success,
                                        !.draft_message = result.message]
                   IN IF result.success
                      THEN [s3 EXCEPT !.draft = result.draft,
                                      !.draft_path = result.draft_path,
                                      !.progress =
                                         Append(Append(@, format_progress_message("complete",
                                                   "Draft generated successfully: "
                                                   \o result.draft_path)),
                                                "   Preview: " \o result.draft)]
                      ELSE [s3 EXCEPT !.error = result.message,
                                      !.progress = Append(@, format_progress_message("error",
                                          "Draft generation failed: " \o result.message))]
    IN [s2 EXCEPT !.stage_times = DictSet(@, "draft")]

\* a finalize_node that replaces the progress log by its summary
finalize_node_Rewrites(st) ==
    [st EXCEPT !.progress = <<"=====", "PIPELINE SUMMARY", "=====">>]

finalize_node(st) ==
    LET header == st.progress \o <<"=====", "PIPELINE SUMMARY", "=====">>
    IN IF Truthy(st.error)
       THEN [st EXCEPT !.progress =
                header \o <<"Status: Failed", "Error: " \o st.error>>]
       ELSE [st EXCEPT !.progress =
                header \o <<"Status: Completed Successfully",
                            "Papers processed: " \o ToString(Len(st.papers)),
                            "Total time",
                            "Stage Times:">>
                       \o [i \in DOMAIN st.stage_times |->
                              "   " \o st.stage_times[i] \o ": duration"]]

\* an app.py graph whose extract node leads straight to draft
AppEdges_SkipAnalyze ==
    << <<"search", "extract">>,
       <<"extract", "draft">>,
       <<"analyze", "draft">>,
       <<"draft", "finalize">>,
       <<"finalize", "END">> >>

\* graph.add_edge(...) calls of app.py build_pipeline; the entry point is "search"
AppEdges ==
    << <<"search", "extract">>,
       <<"extract", "analyze">>,
       <<"analyze", "draft">>,
       <<"draft", "finalize">>,
       <<"finalize", "END">> >>

\* the node a graph's plain edge leads to
Successor(edges, n) ==
    LET i == CHOOSE j \in DOMAIN edges : edges[j][1] = n IN edges[i][2]

\* the collaborator an app.py node calls, and what that call can do
AppCollaborator(n) ==
    CASE n = "search"  -> "process_topic"
      [] n = "extract" -> "process_all_pdfs"
      [] n = "analyze" -> "process_all_papers"
      [] n = "draft"   -> "generate_review"

CollaboratorOutcomes(c) ==
    CASE c = "process_topic"      -> Outcomes(ProcessTopicResults)
      [] c = "process_all_pdfs"   ->
            {process_all_pdfs(l) : l \in PdfListings} \cup {Raises(t) : t \in ExcTexts}
      [] c = "process_all_papers" ->
            {process_all_papers(l, saved) : l \in JsonListings, saved \in BOOLEAN}
            \cup {Raises(t) : t \in ExcTexts}
      [] c = "generate_review"    -> Outcomes(GenerateReviewResults)

\* a node reaches its collaborator unless it is finalize or it short-circuits
AppCalls(n, st) ==
    IF n = "finalize" \/ (n # "search" /\ Truthy(st.error))
    THEN <<>>
    ELSE <<AppCollaborator(n)>>

AppNode(n, st, o) ==
    CASE n = "search"   -> search_node(st, o)
      [] n = "extract"  -> extract_node(st, o)
      [] n = "analyze"  -> analyze_node(st, o)
      [] n = "draft"    -> draft_node(st, o)
      [] n = "finalize" -> finalize_node(st)

----------------------------------------------------------------------------
(* __main__.py: ResearchReviewPipeline *)

\* self.state of ResearchReviewPipeline.__init__
CliInitialState(topic) ==
    [topic |-> topic, papers |-> <<>>, extracted_files |-> <<>>,
     analysis_files |-> <<>>, draft |-> None, draft_path |-> None,
     errors |-> <<>>]

\* the directory glob of stages 2..4 found nothing
NoFiles == [kind |-> "no files"]

\* each stage returns the new self.state and its boolean result
stage_1_search(st, o) ==
    IF o.kind = "raise"
    THEN [st |-> [st EXCEPT !.errors = Append(@, o.text)], ok |-> FALSE]
    ELSE IF o.value.success
         THEN [st |-> [st EXCEPT !.papers = o.value.papers], ok |-> TRUE]
         ELSE [st |-> [st EXCEPT !.errors =
                          Append(@, "Search failed: " \o o.value.message)],
               ok |-> FALSE]

stage_2_extract(st, o) ==
    CASE o.kind = "no files" -> [st |-> st, ok |-> FALSE]
      [] o.kind = "raise" ->
            [st |-> [st EXCEPT !.errors = Append(@, o.text)], ok |-> FALSE]
      [] o.kind = "return" ->
            IF o.value # <<>>
            THEN [st |-> [st EXCEPT !.extracted_files = o.value], ok |-> TRUE]
            ELSE [st |-> [st EXCEPT !.errors = Append(@, "Extraction failed")],
                  ok |-> FALSE]

stage_3_analyze(st, o) ==
    CASE o.kind = "no files" -> [st |-> st, ok |-> FALSE]
      [] o.kind = "raise" ->
            [st |-> [st EXCEPT !.errors = Append(@, o.text)], ok |-> FALSE]
      [] o.kind = "return" ->
            IF o.value # <<>>
            THEN [st |-> [st EXCEPT !.analysis_files = o.value], ok |-> TRUE]
            ELSE [st |-> [st EXCEPT !.errors = Append(@, "Analysis failed")],
                  ok |-> FALSE]

stage_4_draft(st, o) ==
    CASE o.kind = "no files" -> [st |-> st, ok |-> FALSE]
      [] o.kind = "raise" ->
            [st |-> [st EXCEPT !.errors = Append(@, o.text)], ok |-> FALSE]
      [] o.kind = "return" ->
            IF o.value.success
            THEN [st |-> [st EXCEPT !.draft = o.value.draft,
                                    !.draft_path = o.value.draft_path],
                  ok |-> TRUE]
            ELSE [st |-> [st EXCEPT !.errors =
                             Append(@, "Draft generation failed: " \o o.value.message)],
                  ok |-> FALSE]

\* the stages list of run_complete
CliStages ==
    <<"stage_1_search", "stage_2_extract", "stage_3_analyze", "stage_4_draft">>

CliStage(n, st, o) ==
    CASE n = "stage_1_search"  -> stage_1_search(st, o)
      [] n = "stage_2_extract" -> stage_2_extract(st, o)
      [] n = "stage_3_analyze" -> stage_3_analyze(st, o)
      [] n = "stage_4_draft"   -> stage_4_draft(st, o)

CliCollaborator(n) ==
    CASE n = "stage_1_search"  -> "process_topic"
      [] n = "stage_2_extract" -> "process_all_pdfs"
      [] n = "stage_3_analyze" -> "process_all_papers"
      [] n = "stage_4_draft"   -> "generate_review"

\* what the environment of a stage can do: an empty directory, or the collaborator's outcomes
CliOutcomes(n) ==
    CollaboratorOutcomes(CliCollaborator(n))
    \cup (IF n = "stage_1_search" THEN {} ELSE {NoFiles})

\* index of x in the sequence s
IndexOf(s, x) == CHOOSE i \in DOMAIN s : s[i] = x

\* for stage_name, stage_func in stages: if not stage_func(): break
CliNext(n, ok) ==
    IF ok /\ IndexOf(CliStages, n) < Len(CliStages)
    THEN CliStages[IndexOf(CliStages, n) + 1]
    ELSE "done"

----------------------------------------------------------------------------
(* pipeline.py: run_pipeline and the run-only helpers *)


\* initial_state of run_pipeline and of run_search_only
InitialState(topic) ==
    [topic |-> topic, step_log |-> <<>>, errors |-> <<>>, revision_count |-> 0]

\* a state handed to run_revise_only that a caller assembled around a draft
DraftOnlyState ==
    [topic |-> Topic, step_log |-> <<>>, errors |-> <<>>, aggregated_draft |-> "draft"]

\* the stage the compiled graph runs after node n returned state st
GraphNext(n, st) ==
    IF n = "critique_paper"
    THEN PathMap(revise_node(st))
    ELSE Successor(Edges, n)

\* an except clause that starts the error list afresh
RunPipelineExcept_DropsErrors(final_state, text) ==
    Merge(final_state, [errors |-> <<text>>])

\* except Exception as exc: final_state = {**final_state, "errors": errors + [str(exc)]}
RunPipelineExcept(final_state, text) ==
    Merge(final_state,
          [errors |-> Append(IF "errors" \in DOMAIN final_state
                             THEN final_state.errors ELSE <<>>, text)])

\* the next call of run_search_only after stage n
SearchOnlyNext(n) ==
    IF IndexOf(SearchStages, n) < Len(SearchStages)
    THEN SearchStages[IndexOf(SearchStages, n) + 1]
    ELSE "done"

\* run_generate_only revising after its first critique without asking revise_node
GenerateOnlyNext_Unguarded(n, st, critiques) ==
    CASE n = "critique_paper" ->
            IF critiques = 1 THEN "revise_paper" ELSE "final_draft"
      [] n = "revise_paper" -> "critique_paper"
      [] n = "final_draft"  -> "done"
      [] OTHER ->
            IF IndexOf(GenerateStages, n) < Len(GenerateStages)
            THEN GenerateStages[IndexOf(GenerateStages, n) + 1]
            ELSE "critique_paper"

\* the next call of run_generate_only: after stage n returned st, with
\* critiques critique_paper calls made so far
GenerateOnlyNext(n, st, critiques) ==
    CASE n = "critique_paper" ->
            IF critiques = 1 /\ revise_node(st) = "revise_paper"
            THEN "revise_paper"
            ELSE "final_draft"
      [] n = "revise_paper" -> "critique_paper"
      [] n = "final_draft"  -> "done"
      [] OTHER ->
            IF IndexOf(GenerateStages, n) < Len(GenerateStages)
            THEN GenerateStages[IndexOf(GenerateStages, n) + 1]
            ELSE "critique_paper"

\* run_revise_only without the second critique
ReviseOnlyNext_SkipCritique(n, critiques) ==
    CASE n = "critique_paper" -> IF critiques = 1 THEN "revise_paper" ELSE "final_draft"
      [] n = "revise_paper"   -> "final_draft"
      [] n = "final_draft"    -> "done"

\* the next call of run_revise_only: critique, revise, critique, final_draft
ReviseOnlyNext(n, critiques) ==
    CASE n = "critique_paper" -> IF critiques = 1 THEN "revise_paper" ELSE "final_draft"
      [] n = "revise_paper"   -> "critique_paper"
      [] n = "final_draft"    -> "done"

HelperNext(e, n, st, critiques) ==
    CASE e = "run_search_only"   -> SearchOnlyNext(n)
      [] e = "run_generate_only" -> GenerateOnlyNext(n, st, critiques)
      [] e = "run_revise_only"   -> ReviseOnlyNext(n, critiques)

Helpers == {"run_search_only", "run_generate_only", "run_revise_only"}

PipelineEntries == {"run_pipeline"} \cup Helpers

----------------------------------------------------------------------------
(* The state machine *)

Init ==
    /\ entry = "none"
    /\ pc = "done"
    /\ state = EmptyDict
    /\ app = EmptyDict
    /\ cli = EmptyDict
    /\ executed = <<>>
    /\ outcome = "returned"
    /\ raised = NoExc
    /\ calls = <<>>
    /\ runs = 0
    /\ disk = EmptyDict
    /\ args = EmptyDict
    /\ ret = NoCall
    /\ attempt = 0
    /\ slept = <<>>
    /\ llm = <<>>
    /\ log = <<>>

\* common to every entry point: a new call begins; the variables hold the
\* state of the call in progress, the states of earlier calls of the other
\* programs are gone
Begin(e, first) ==
    /\ pc = "done"
    /\ runs < MaxRuns
    /\ runs' = runs + 1
    /\ entry' = e
    /\ pc' = first
    /\ executed' = <<>>
    /\ calls' = <<>>
    /\ outcome' = IF first = "done" THEN "returned" ELSE "running"
    /\ raised' = NoExc
    /\ ret' = NoCall
    /\ attempt' = 0
    /\ slept' = <<>>
    /\ llm' = <<>>
    /\ log' = <<>>

\* a state an earlier pipeline.py call returned to the caller
HasReturnedState ==
    /\ entry \in PipelineEntries
    /\ outcome = "returned"

StartRunPipeline ==
    /\ Begin("run_pipeline", EntryPoint)
    /\ state' = InitialState(Topic)
    /\ app' = EmptyDict
    /\ cli' = EmptyDict
    /\ disk' = EmptyDict
    /\ args' = EmptyDict

StartRunSearchOnly ==
    /\ Begin("run_search_only", SearchStages[1])
    /\ state' = InitialState(Topic)
    /\ app' = EmptyDict
    /\ cli' = EmptyDict
    /\ disk' = EmptyDict
    /\ args' = EmptyDict

StartRunGenerateOnly ==
    /\ HasReturnedState
    /\ "downloaded_pdfs" \in DOMAIN state
    /\ Begin("run_generate_only", GenerateStages[1])
    /\ UNCHANGED <<state, app, cli, disk, args>>

\* state = {"revision_count": 0, **state}
StartRunReviseOnly ==
    /\ \E given \in {DraftOnlyState}
                    \cup (IF HasReturnedState /\ "aggregated_draft" \in DOMAIN state
                          THEN {state} ELSE {}) :
          state' = Merge([revision_count |-> 0], given)
    /\ Begin("run_revise_only", "critique_paper")
    /\ disk' = EmptyDict
    /\ args' = EmptyDict
    /\ UNCHANGED <<app, cli>>

\* a node of the compiled graph completes and its output is merged into final_state
RunPipelineNode ==
    /\ entry = "run_pipeline"
    /\ pc \in GraphNodes
    /\ \E node_output \in NodeReturns(pc, state) :
          /\ state' = Merge(state, node_output)
          /\ LET next == GraphNext(pc, node_output)
             IN IF next = "END"
                THEN pc' = "done" /\ outcome' = "returned"
                ELSE pc' = next /\ outcome' = outcome
    /\ executed' = Append(executed, pc)
    /\ UNCHANGED <<entry, app, cli, raised, calls, runs>>
    /\ UNCHANGED compVars

\* a node of the compiled graph raises: run_pipeline catches it and returns
RunPipelineNodeRaises ==
    /\ entry = "run_pipeline"
    /\ pc \in GraphNodes
    /\ \E text \in ExcTexts :
          /\ state' = RunPipelineExcept(state, text)
          /\ raised' = text
    /\ executed' = Append(executed, pc)
    /\ pc' = "done"
    /\ outcome' = "returned"
    /\ UNCHANGED <<entry, app, cli, calls, runs>>
    /\ UNCHANGED compVars

\* the progress callback raises after a node's output was merged
RunPipelineCallbackRaises ==
    /\ entry = "run_pipeline"
    /\ pc \in GraphNodes
    /\ \E node_output \in NodeReturns(pc, state), text \in ExcTexts :
          /\ state' = RunPipelineExcept(Merge(state, node_output), text)
          /\ raised' = text
    /\ executed' = Append(executed, pc)
    /\ pc' = "done"
    /\ outcome' = "returned"
    /\ UNCHANGED <<entry, app, cli, calls, runs>>
    /\ UNCHANGED compVars

\* state = fn(state) in a run-only helper
HelperNode ==
    /\ entry \in Helpers
    /\ pc \in GraphNodes
    /\ \E st \in NodeReturns(pc, state) :
          /\ state' = st
          /\ LET next == HelperNext(entry, pc, st,
                                    Count(Append(executed, pc), "critique_paper"))
             IN IF next = "done"
                THEN pc' = "done" /\ outcome' = "returned"
                ELSE pc' = next /\ outcome' = outcome
    /\ executed' = Append(executed, pc)
    /\ UNCHANGED <<entry, app, cli, raised, calls, runs>>
    /\ UNCHANGED compVars

\* a node raises inside a helper: nothing catches it
HelperNodeRaises ==
    /\ entry \in Helpers
    /\ pc \in GraphNodes
    /\ \E text \in ExcTexts : raised' = text
    /\ executed' = Append(executed, pc)
    /\ pc' = "done"
    /\ outcome' = "raised"
    /\ UNCHANGED <<entry, state, app, cli, calls, runs>>
    /\ UNCHANGED compVars

\* app.py run_pipeline with a blank topic: one message is yielded, no graph runs
StartAppBlankTopic ==
    /\ Begin("app_blank_topic", "done")
    /\ state' = EmptyDict
    /\ app' = EmptyDict
    /\ cli' = EmptyDict
    /\ disk' = EmptyDict
    /\ args' = EmptyDict

\* app.py run_pipeline: create_initial_state, build_pipeline, pipeline.invoke
StartApp ==
    /\ Begin("app", "search")
    /\ app' = create_initial_state(Topic)
    /\ state' = EmptyDict
    /\ cli' = EmptyDict
    /\ disk' = EmptyDict
    /\ args' = EmptyDict

\* one node of the app.py graph; after finalize the texts are yielded
AppStep ==
    /\ entry = "app"
    /\ pc # "done"
    /\ LET called == AppCalls(pc, app)
       IN /\ \E o \in (IF called = <<>> THEN {Returned(None)}
                       ELSE CollaboratorOutcomes(called[1])) :
                /\ app' = AppNode(pc, app, o)
                /\ raised' = IF o.kind = "raise" THEN o.text ELSE NoExc
                /\ log' = log \o (IF "log" \in DOMAIN o THEN o.log ELSE <<>>)
          /\ calls' = calls \o called
    /\ executed' = Append(executed, pc)
    /\ LET next == Successor(AppEdges, pc)
       IN IF next = "END"
          THEN pc' = "done" /\ outcome' = "returned"
          ELSE pc' = next /\ outcome' = outcome
    /\ UNCHANGED <<entry, state, cli, runs, disk, args, ret, attempt, slept, llm>>

\* ResearchReviewPipeline(topic).run_complete()
StartCli ==
    /\ Begin("cli", CliStages[1])
    /\ cli' = CliInitialState(Topic)
    /\ state' = EmptyDict
    /\ app' = EmptyDict
    /\ disk' = EmptyDict
    /\ args' = EmptyDict

\* one stage of run_complete; a False result or the last stage leads to the summary
CliStep ==
    /\ entry = "cli"
    /\ pc # "done"
    /\ \E o \in CliOutcomes(pc) :
          LET r == CliStage(pc, cli, o)
          IN /\ cli' = r.st
             /\ calls' = IF o.kind = "no files" THEN calls
                         ELSE Append(calls, CliCollaborator(pc))
             /\ pc' = CliNext(pc, r.ok)
             /\ outcome' = IF CliNext(pc, r.ok) = "done" THEN "returned" ELSE outcome
             /\ raised' = IF o.kind = "raise" THEN o.text ELSE NoExc
             /\ log' = log \o (IF "log" \in DOMAIN o THEN o.log ELSE <<>>)
    /\ executed' = Append(executed, pc)
    /\ UNCHANGED <<entry, state, app, runs, disk, args, ret, attempt, slept, llm>>

\* a component is called on its own, in a session that runs no pipeline.
\* Only the papers directory outlives a call, so only download_pdf is called
\* again in the same session.
BeginCall(e, a) ==
    /\ entry = "none" \/ (e = "download_pdf" /\ entry = "download_pdf")
    /\ Begin(e, e)
    /\ args' = a
    /\ state' = EmptyDict
    /\ app' = EmptyDict
    /\ cli' = EmptyDict

\* what the call gave its caller
Ends(result) ==
    /\ ret' = result
    /\ pc' = "done"
    /\ outcome' = IF result.kind = "raise" THEN "raised" ELSE "returned"
    /\ raised' = IF result.kind = "raise" THEN result.text ELSE NoExc

\* tenacity after one execution of the wrapped function: a return value ends
\* the call, an exception leads to a wait and another attempt, or to RetryError
\* once stop_after_attempt says so
Retrying(result, stop, wait) ==
    /\ attempt' = attempt + 1
    /\ IF result.kind = "return"
       THEN Ends(result) /\ slept' = slept
       ELSE IF stop_after_attempt(stop, attempt + 1)
       THEN Ends(Raises(RetryError)) /\ slept' = slept
       ELSE /\ slept' = Append(slept, wait)
            /\ raised' = result.text
            /\ UNCHANGED <<ret, pc, outcome>>

\* validate_pdf(file_path)
StartValidatePdf ==
    /\ pc = "done" /\ entry = "none"
    /\ \E file_path \in Files, fault \in Faults :
          BeginCall("validate_pdf",
                    [fn |-> "validate_pdf", file_path |-> file_path, fault |-> fault])
    /\ disk' = EmptyDict

ValidatePdfStep ==
    /\ entry = "validate_pdf"
    /\ pc = "validate_pdf"
    /\ LET v == validate_pdf(args.file_path, args.fault)
       IN /\ Ends(v)
          /\ calls' = calls \o OsErrors(v)
    /\ UNCHANGED <<entry, state, app, cli, executed, runs,
                   disk, args, attempt, slept, llm, log>>

\* PaperSearcher().search_papers(topic, limit); answer is what the service
\* sends for this query whenever a request gets through
StartSearchPapers ==
    /\ pc = "done" /\ entry = "none"
    /\ \E limit \in 1..MaxLimit :
          \E answer \in {r \in SearchResponses(limit) : r.kind = "ok"} :
             BeginCall("search_papers",
                       [fn |-> "search_papers", topic |-> Topic, limit |-> limit,
                        answer |-> answer])
    /\ disk' = EmptyDict

\* one attempt: the request is sent and the body of search_papers runs
SearchPapersAttempt ==
    /\ entry = "search_papers"
    /\ pc = "search_papers"
    /\ \E response \in {[kind |-> "error", text |-> "timeout"], args.answer} :
          LET r == search_papers(args.topic, args.limit, response)
          IN /\ Retrying(r.result, search_papers_stop, NetworkWait(attempt + 1))
             /\ log' = log \o r.log
    /\ calls' = Append(calls, "GET")
    /\ UNCHANGED <<entry, state, app, cli, executed, runs, disk, args, llm>>

\* PaperSearcher().download_pdf(paper, PAPERS_DIR); the papers directory is
\* what the download_pdf calls before this one left
StartDownloadPdf ==
    /\ pc = "done" /\ entry \in {"none", "download_pdf"}
    /\ \E paper \in Papers :
          BeginCall("download_pdf", [fn |-> "download_pdf", paper |-> paper])
    /\ disk' = IF entry = "download_pdf" THEN disk ELSE EmptyDict

\* one attempt: the body of download_pdf runs
DownloadPdfAttempt ==
    /\ entry = "download_pdf"
    /\ pc = "download_pdf"
    /\ \E e \in DownloadEnvs :
          LET r == download_pdf(args.paper, disk, e)
          IN /\ Retrying(r.result, download_pdf_stop, NetworkWait(attempt + 1))
             /\ disk' = r.disk
             /\ calls' = calls \o r.calls
             /\ log' = log \o r.log
    /\ UNCHANGED <<entry, state, app, cli, executed, runs, args, llm>>

\* PaperSearcher().process_topic(topic) on an empty papers directory; args
\* also holds the locals of the call: papers, downloaded_papers and, for each
\* paper gone through, what download_pdf gave
StartProcessTopic ==
    /\ pc = "done" /\ entry = "none"
    /\ \E topic \in Topics :
          BeginCall("process_topic",
                    [fn |-> "process_topic", topic |-> topic, papers |-> <<>>,
                     downloaded_papers |-> <<>>, outcomes |-> <<>>])
    /\ disk' = EmptyDict

\* papers = self.search_papers(topic); if not papers: return
ProcessTopicSearch ==
    /\ entry = "process_topic"
    /\ pc = "process_topic"
    /\ \E found \in {Raises(RetryError)} \cup {Returned(ps) : ps \in PaperLists} :
          IF found.kind = "raise"
          THEN Ends(found) /\ args' = args
          ELSE IF found.value = <<>>
          THEN Ends(NoPapersFound) /\ args' = args
          ELSE /\ args' = [args EXCEPT !.papers = found.value]
               /\ pc' = "download_pdf"
               /\ UNCHANGED <<ret, outcome, raised>>
    /\ calls' = Append(calls, "search_papers")
    /\ UNCHANGED <<entry, state, app, cli, executed, runs, disk, attempt, slept, llm, log>>

\* one turn of for paper in papers, and what follows the loop after the last one
ProcessTopicDownload ==
    /\ entry = "process_topic"
    /\ pc = "download_pdf"
    /\ LET paper == args.papers[Len(args.outcomes) + 1]
       IN \E r \in {DownloadCall(paper, disk, e, 1) : e \in DownloadEnvs} :
                /\  disk' = r.disk
                /\ log' = log \o r.log
                /\ IF r.result.kind = "raise"
                   THEN /\ Ends(r.result)
                        /\ args' = args
                        /\ calls' = calls \o r.calls
                   ELSE LET kept == KeepDownloaded(args.downloaded_papers, paper,
                                                   r.result.value)
                            gone == Append(args.outcomes,
                                           [paper |-> paper, pdf_path |-> r.result.value,
                                            fetched |-> "GET" \in Range(r.calls),
                                            rejected |-> /\ r.log # <<>>
                                                         /\ Last(r.log) = NotAValidDownload])
                        IN /\ args' = [args EXCEPT !.downloaded_papers = kept,
                                                   !.outcomes = gone]
                           /\ IF Len(gone) = Len(args.papers)
                              THEN /\ Ends(ProcessTopicEnd(kept))
                                   /\ calls' = calls \o r.calls
                                         \o (IF kept # <<>>
                                             THEN <<"write:" \o MetadataPath(args.topic)>>
                                             ELSE <<>>)
                              ELSE /\ calls' = calls \o r.calls
                                   /\ UNCHANGED <<ret, pc, outcome, raised>>
    /\ UNCHANGED <<entry, state, app, cli, executed, runs, attempt, slept, llm>>

\* section_paper(text), extract_insights(sections), compare_papers(analyses, topic)
\* or generate_draft(analysis_data, topic)
StartLlmRequest ==
    /\ pc = "done" /\ entry = "none"
    /\ \E op \in LlmOps : \E a \in LlmArgs(op) : BeginCall(op, a)
    /\ disk' = EmptyDict

\* the request is answered before any model is called
LlmUnusable ==
    /\ entry \in LlmOps
    /\ pc = entry
    /\ ~args.usable
    /\ Retrying(Returned(Unusable(args)), LlmStop(entry), LlmWait(entry, attempt + 1))
    /\ UNCHANGED <<entry, state, app, cli, executed, calls, runs, disk, args, llm, log>>

\* one generate_content call for the next model of models_to_try; llm holds the
\* calls of the current pass over the chain
LlmCall ==
    /\ entry \in LlmOps
    /\ pc = entry
    /\ args.usable
    /\ LET model_name == models_to_try[Len(llm) + 1]
       IN /\ calls' = Append(calls, "generate_content:" \o model_name)
          /\ \E response \in Responses(entry) :
                LET r == OnResponse(args, response)
                    tried == Append(llm, [model |-> model_name, response |-> response])
                IN IF r.done
                   THEN /\ Retrying(Returned(r.value), LlmStop(entry),
                                    LlmWait(entry, attempt + 1))
                        /\ llm' = tried
                   ELSE IF Len(tried) < Len(models_to_try)
                   THEN /\ llm' = tried
                        /\ UNCHANGED <<ret, pc, outcome, raised, attempt, slept>>
                   ELSE /\ Retrying(Exhausted(args), LlmStop(entry),
                                    LlmWait(entry, attempt + 1))
                        /\ llm' = IF pc' = "done" THEN tried ELSE <<>>
    /\ UNCHANGED <<entry, state, app, cli, executed, runs, disk, args, log>>

\* TextExtractor().process_all_pdfs(PAPERS_DIR)
StartProcessAllPdfs ==
    /\ pc = "done" /\ entry = "none"
    /\ \E all_files \in PdfListings :
          BeginCall("process_all_pdfs",
                    [fn |-> "process_all_pdfs", all_files |-> all_files])
    /\ disk' = EmptyDict

ProcessAllPdfsStep ==
    /\ entry = "process_all_pdfs"
    /\ pc = "process_all_pdfs"
    /\ LET r == process_all_pdfs(args.all_files)
       IN /\ Ends(IF r.kind = "raise"
                  THEN [kind |-> "raise", text |-> r.text, opened |-> r.opened]
                  ELSE [kind |-> "return", value |-> r.value, opened |-> r.opened])
          /\ calls' = r.calls
          /\ log' = r.log
    /\ UNCHANGED <<entry, state, app, cli, executed, runs, disk, args, attempt, slept, llm>>

\* TextExtractor().process_pdf(pdf_path)
StartProcessPdf ==
    /\ pc = "done" /\ entry = "none"
    /\ \E pdf_path \in Files, fault \in Faults, extraction \in Extractions :
          BeginCall("process_pdf",
                    [fn |-> "process_pdf", file_path |-> pdf_path, fault |-> fault,
                     extraction |-> extraction])
    /\ disk' = EmptyDict

ProcessPdfStep ==
    /\ entry = "process_pdf"
    /\ pc = "process_pdf"
    /\ Ends(process_pdf(args.file_path, args.fault, args.extraction))
    /\ UNCHANGED <<entry, state, app, cli, executed, calls, runs, disk, args, attempt,
                   slept, llm, log>>

\* TextExtractor().extract_raw_text(pdf_path)
StartExtractRawText ==
    /\ pc = "done" /\ entry = "none"
    /\ \E pdf_path \in Files, fault \in Faults, extraction \in Extractions :
          BeginCall("extract_raw_text",
                    [fn |-> "extract_raw_text", file_path |-> pdf_path, fault |-> fault,
                     extraction |-> extraction])
    /\ disk' = EmptyDict

ExtractRawTextStep ==
    /\ entry = "extract_raw_text"
    /\ pc = "extract_raw_text"
    /\ Ends(extract_raw_text(args.file_path, args.fault, args.extraction))
    /\ UNCHANGED <<entry, state, app, cli, executed, calls, runs, disk, args, attempt,
                   slept, llm, log>>

\* PaperAnalyzer().process_all_papers(EXTRACTED_DIR)
StartProcessAllPapers ==
    /\ pc = "done" /\ entry = "none"
    /\ \E json_files \in JsonListings :
          BeginCall("process_all_papers",
                    [fn |-> "process_all_papers", json_files |-> json_files])
    /\ disk' = EmptyDict

ProcessAllPapersStep ==
    /\ entry = "process_all_papers"
    /\ pc = "process_all_papers"
    /\ \E comparison_saved \in BOOLEAN :
          LET r == process_all_papers(args.json_files, comparison_saved)
          IN /\ Ends([kind |-> "return", value |-> r.value, compared |-> r.compared])
             /\ calls' = r.calls
             /\ log' = r.log
    /\ UNCHANGED <<entry, state, app, cli, executed, runs, disk, args, attempt, slept, llm>>

\* PaperAnalyzer().analyze_paper(extracted_json)
StartAnalyzePaper ==
    /\ pc = "done" /\ entry = "none"
    /\ \E f \in JsonFiles :
          BeginCall("analyze_paper", [fn |-> "analyze_paper", extracted_json |-> f])
    /\ disk' = EmptyDict

AnalyzePaperStep ==
    /\ entry = "analyze_paper"
    /\ pc = "analyze_paper"
    /\ Ends(Returned(analyze_paper(args.extracted_json)))
    /\ calls' = IF args.extracted_json.analysis \in {"no_text", "raises"} THEN <<>>
                ELSE <<"section_paper", "extract_insights">>
    /\ UNCHANGED <<entry, state, app, cli, executed, runs, disk, args, attempt, slept,
                   llm, log>>

\* DraftGenerator().generate_review(topic)
StartGenerateReview ==
    /\ pc = "done" /\ entry = "none"
    /\ \E analysis_files \in AnalysisListings, topic \in Topics :
          BeginCall("generate_review",
                    [fn |-> "generate_review", topic |-> topic,
                     analysis_files |-> analysis_files])
    /\ disk' = EmptyDict

GenerateReviewStep ==
    /\ entry = "generate_review"
    /\ pc = "generate_review"
    /\ \E o \in DraftOutcomes :
          LET r == generate_review(args.topic, args.analysis_files, o)
          IN /\ Ends([kind |-> "return", value |-> r.result, drafted |-> r.drafted])
             /\ calls' = r.calls
    /\ UNCHANGED <<entry, state, app, cli, executed, runs, disk, args, attempt, slept,
                   llm, log>>

\* two runs for different topics start on empty data directories
StartConcurrentRuns ==
    /\ pc = "done" /\ entry = "none"
    /\ \E t1 \in Topics, t2 \in Topics, p1 \in Papers, p2 \in Papers :
          /\ t1 # t2
          /\ BeginCall("concurrent_runs",
                       [fn |-> "concurrent_runs",
                        run |-> [id \in RunIds |->
                                   IF id = "1" THEN [topic |-> t1, paper |-> p1]
                                   ELSE [topic |-> t2, paper |-> p2]]])
    /\ disk' = EmptyDict

\* one of the two runs executes its next stage
ConcurrentStage ==
    /\ entry = "concurrent_runs"
    /\ pc = "concurrent_runs"
    /\ \E id \in RunIds, timestamp \in Timestamps :
          LET k == StagesDone(id, calls) + 1
          IN /\ k <= Len(ConcurrentStages)
             /\ (ConcurrentStages[k] # "generate_review" => timestamp = "20260101_000000")
             /\ LET paths == StageWrites(ConcurrentStages[k], args.run[id], disk, timestamp)
                IN /\ disk' = WriteAll(disk, paths, id)
                   /\ calls' = Append(calls, id \o ":" \o ConcurrentStages[k])
                   /\ IF Len(calls) + 1 = 2 * Len(ConcurrentStages)
                      THEN pc' = "done" /\ outcome' = "returned"
                      ELSE UNCHANGED <<pc, outcome>>
    /\ UNCHANGED <<entry, state, app, cli, executed, raised, runs, args, ret, attempt,
                   slept, llm, log>>

Next ==
    \/ StartRunPipeline
    \/ StartRunSearchOnly
    \/ StartRunGenerateOnly
    \/ StartRunReviseOnly
    \/ RunPipelineNode
    \/ RunPipelineNodeRaises
    \/ RunPipelineCallbackRaises
    \/ HelperNode
    \/ HelperNodeRaises
    \/ StartAppBlankTopic
    \/ StartApp
    \/ AppStep
    \/ StartCli
    \/ CliStep
    \/ StartValidatePdf
    \/ ValidatePdfStep
    \/ StartSearchPapers
    \/ SearchPapersAttempt
    \/ StartDownloadPdf
    \/ DownloadPdfAttempt
    \/ StartLlmRequest
    \/ LlmUnusable
    \/ LlmCall
    \/ StartProcessAllPdfs
    \/ StartProcessTopic
    \/ ProcessTopicSearch
    \/ ProcessTopicDownload
    \/ StartProcessPdf
    \/ ProcessPdfStep
    \/ StartExtractRawText
    \/ ExtractRawTextStep
    \/ ProcessAllPdfsStep
    \/ StartProcessAllPapers
    \/ ProcessAllPapersStep
    \/ StartAnalyzePaper
    \/ AnalyzePaperStep
    \/ StartGenerateReview
    \/ GenerateReviewStep
    \/ StartConcurrentRuns
    \/ ConcurrentStage

Spec == Init /\ [][Next]_vars

\* a run in progress takes its next step: the interpreter runs the stages in sequence
RunStep ==
    \/ RunPipelineNode
    \/ RunPipelineNodeRaises
    \/ RunPipelineCallbackRaises
    \/ HelperNode
    \/ HelperNodeRaises
    \/ AppStep
    \/ CliStep

FairSpec == Spec /\ WF_vars(RunStep)


----------------------------------------------------------------------------
(* Derived notions used by the properties *)

\* this step executes stage n
StageRuns(n) == executed' = Append(executed, n)

\* this step executes some stage
SomeStageRuns == Len(executed') = Len(executed) + 1

\* the stage executed last in the current run is n
LastWas(n) == executed # <<>> /\ Last(executed) = n

Critiques == Count(executed, "critique_paper")

\* the state records a critique that signals inadequate quality below the cap
ReviseWarranted ==
    /\ "critique" \in DOMAIN state
    /\ state.critique = "inadequate"
    /\ state.revision_count < Cap

----------------------------------------------------------------------------
(* C1 *)

----------------------------------------------------------------------------
(* C2 *)

\* C2: in every state of a run of any pipeline.py entry point revision_count
\* is at most the cap, and when it equals the cap the stage after
\* critique_paper is final_draft.
C2_RevisionCountWithinCap ==
    (entry \in PipelineEntries /\ "revision_count" \in DOMAIN state) =>
        /\ state.revision_count <= Cap
        /\ (LastWas("critique_paper") /\ pc # "done" /\ state.revision_count = Cap)
              => pc = "final_draft"

----------------------------------------------------------------------------
(* C3 *)

\* in the entry points es a step executes revise_paper only directly after a
\* critique that warrants it, and final_draft after any other critique
GuardedReviseIn(es) ==
    entry \in es =>
        /\ StageRuns("revise_paper")
              => (LastWas("critique_paper") /\ ReviseWarranted)
        /\ (LastWas("critique_paper") /\ ~ReviseWarranted /\ SomeStageRuns)
              => StageRuns("final_draft")

\* run_revise_only: critique, revise, critique, final_draft whatever the state
ForcedReviseOnce ==
    entry = "run_revise_only" =>
        /\ StageRuns("revise_paper")
              => (LastWas("critique_paper") /\ Critiques = 1)
        /\ (LastWas("critique_paper") /\ Critiques = 1 /\ SomeStageRuns)
              => StageRuns("revise_paper")
        /\ (LastWas("critique_paper") /\ Critiques = 2 /\ SomeStageRuns)
              => StageRuns("final_draft")

----------------------------------------------------------------------------
(* C4 *)

\* C4: in every pipeline.py entry point the stage executed next after
\* revise_paper is critique_paper, never final_draft or revise_paper again;
\* once revise_paper has returned, critique_paper is the stage about to run.
C4_ReviseThenCritique ==
    entry \in PipelineEntries =>
        /\ \A i \in 1..(Len(executed) - 1) :
              executed[i] = "revise_paper" => executed[i + 1] = "critique_paper"
        /\ (LastWas("revise_paper") /\ pc # "done") => pc = "critique_paper"

\* run_revise_only has executed revise_paper and then critique_paper
C4_Witness ==
    /\ entry = "run_revise_only"
    /\ Len(executed) >= 3
    /\ executed[2] = "revise_paper"
    /\ executed[3] = "critique_paper"

----------------------------------------------------------------------------
(* C5 *)

\* the terminal stage of the entry point in progress
Terminal == IF entry = "app" THEN "finalize" ELSE "final_draft"

\* C5: in every run of run_pipeline (pipeline.py) and of the app.py graph the
\* terminal stage is executed exactly once by the end of the run, whatever
\* error a stage recorded or raised, and no stage is executed after it.
C5_TerminalStageAlwaysRuns ==
    entry \in {"run_pipeline", "app"} =>
        /\ Count(executed, Terminal) <= 1
        /\ pc = "done" => (Count(executed, Terminal) = 1 /\ LastWas(Terminal))


----------------------------------------------------------------------------
(* C6 *)

ShortCircuitStages == {"extract", "analyze", "draft"}

\* a non-terminal app.py stage runs on a state whose error field is set
StageRunsAfterError ==
    /\ entry = "app"
    /\ pc \in ShortCircuitStages
    /\ app.error # None
    /\ StageRuns(pc)

\* C6: once an error has been recorded in the app.py state, every later
\* execution of extract, analyze or draft returns the state exactly as it
\* received it and calls no collaborator.
C6_ShortCircuitAfterError ==
    [][StageRunsAfterError => (app' = app /\ calls' = calls)]_vars

----------------------------------------------------------------------------
(* C7 *)

\* the states run_pipeline can have accumulated when the exception arrives:
\* before the node's output, or with it when the progress callback raised
Accumulated ==
    {state} \cup {Merge(state, node_output) : node_output \in NodeReturns(pc, state)}

\* a stage of the compiled graph, or the callback after it, raises in this step
RaisesWhileDriven ==
    /\ entry = "run_pipeline"
    /\ SomeStageRuns
    /\ raised' # NoExc

\* run_pipeline returns an accumulated state whose errors are the errors
\* recorded so far, in order, followed by the exception text
ReturnsStateWithError ==
    /\ pc' = "done"
    /\ outcome' = "returned"
    /\ \E final_state \in Accumulated :
          state' = [final_state EXCEPT !.errors = Append(@, raised')]
    /\ IsPrefix(state.errors, state'.errors)

\* C7: run_pipeline of pipeline.py and of app.py never ends by raising; when a
\* stage raises while the graph is driven, pipeline.py's run_pipeline returns
\* the last accumulated state with the exception text appended to errors, the
\* errors recorded before it still present and in order.
C7_RunNeverRaises ==
    /\ [](entry \in {"run_pipeline", "app", "app_blank_topic"} => outcome # "raised")
    /\ [][RaisesWhileDriven => ReturnsStateWithError]_vars

\* run_pipeline returned after a node raised, with an earlier error still in front
C7_Witness ==
    /\ entry = "run_pipeline"
    /\ pc = "done"
    /\ outcome = "returned"
    /\ raised # NoExc
    /\ Len(state.errors) = 2
    /\ state.errors[2] = raised
    /\ ~LastWas("final_draft")

----------------------------------------------------------------------------
(* C8 *)

\* the collaborator of the stage executed in this step raised
CollaboratorRaises ==
    /\ entry \in {"app", "cli"}
    /\ SomeStageRuns
    /\ raised' # NoExc

\* the stage returned all the same, with the exception's text recorded
StageRecordsError ==
    /\ outcome' # "raised"
    /\ entry = "app" =>
          /\ app'.error = raised'
          /\ pc' = Successor(AppEdges, pc)
          /\ Len(app'.progress) = Len(app.progress) + 2
    /\ entry = "cli" =>
          /\ cli'.errors = Append(cli.errors, raised')
          /\ pc' = "done"

\* C8: every stage function of app.py and of __main__.py returns normally
\* when its collaborator raises, and the exception's text is then recorded in
\* the error field (app.py) or appended to the errors list (__main__.py).
C8_StageAbsorbsException ==
    [][CollaboratorRaises => StageRecordsError]_vars

\* search_node has absorbed an exception of process_topic and the graph went on
C8_Witness ==
    /\ entry = "app"
    /\ executed = <<"search">>
    /\ raised = "boom"
    /\ app.error = "boom"
    /\ pc = "extract"

----------------------------------------------------------------------------
(* C9 *)

\* the declared order of the stages of each program
DeclaredOrder ==
    CASE entry \in PipelineEntries ->
            << "process_input", "planner", "search_articles", "article_decisions",
               "download_articles", "extract_text", "normalize_text",
               "semantic_section", "validate_sections", "store_sections",
               "paper_analyzer", "cross_compare",
               "write_abstract", "write_introduction", "write_methods",
               "write_results", "write_conclusion", "write_references",
               "aggregate_paper", "critique_paper" >>
      [] entry = "app" -> <<"search", "extract", "analyze", "draft", "finalize">>
      [] entry = "cli" -> <<"stage_1_search", "stage_2_extract",
                            "stage_3_analyze", "stage_4_draft">>
      [] OTHER -> <<>>

\* b is the stage declared directly after a
DirectlyAfter(a, b) ==
    \E i \in 1..(Len(DeclaredOrder) - 1) :
        DeclaredOrder[i] = a /\ DeclaredOrder[i + 1] = b

\* the edges of the critique/revise cycle
CycleEdge(a, b) ==
    /\ entry \in PipelineEntries
    /\ \/ a = "critique_paper" /\ b \in {"revise_paper", "final_draft"}
       \/ a = "revise_paper" /\ b = "critique_paper"

\* C9: within a run the stages are executed in the declared order, each
\* directly after its declared predecessor; a stage outside the
\* critique/revise cycle is executed at most once, and the only step back is
\* from revise_paper to critique_paper.
C9_DeclaredOrder ==
    /\ \A i \in 1..(Len(executed) - 1) :
          \/ DirectlyAfter(executed[i], executed[i + 1])
          \/ CycleEdge(executed[i], executed[i + 1])
    /\ \A i \in DOMAIN executed :
          executed[i] \notin {"critique_paper", "revise_paper"}
             => Count(executed, executed[i]) = 1
    /\ (executed # <<>> /\ entry \in {"run_pipeline", "app", "cli"})
          => executed[1] = DeclaredOrder[1]

\* a complete run of the compiled graph with two revisions: 25 stage executions
C9_Witness ==
    /\ entry = "run_pipeline"
    /\ pc = "done"
    /\ Len(executed) = 25
    /\ executed[1] = "process_input"
    /\ executed[25] = "final_draft"
    /\ raised = NoExc

----------------------------------------------------------------------------
(* C10 *)

\* a step inside one run
SameRun == runs' = runs

\* C10: during a run the error list and the progress log only grow at the
\* end: the value before a step is a prefix of the value after it.
C10_AppendOnlyStep ==
    SameRun =>
        /\ entry \in PipelineEntries =>
              /\ IsPrefix(state.errors, state'.errors)
              /\ IsPrefix(state.step_log, state'.step_log)
        /\ entry = "app" => IsPrefix(app.progress, app'.progress)
        /\ entry = "cli" => IsPrefix(cli.errors, cli'.errors)

C10_AppendOnly == [][C10_AppendOnlyStep]_vars

\* the app.py run ended in failure: finalize added its five entries after the
\* entries of the earlier stages
C10_Witness ==
    /\ entry = "app"
    /\ pc = "done"
    /\ Truthy(app.error)
    /\ Len(app.progress) >= 7
    /\ app.progress[Len(app.progress) - 1] = "Status: Failed"

----------------------------------------------------------------------------
(* C11 *)

\* a sequence of delays that never gets shorter
NonDecreasing(s) == \A i \in DOMAIN s : \A j \in DOMAIN s : i <= j => s[i] <= s[j]

\* C11: one search_papers call sends at most 3 requests, one per attempt; after
\* every failed attempt but the last it waits, and the waits never get shorter;
\* the call fails only after the third failed request, and then it fails for
\* its caller (RetryError) instead of trying again.
C11_SearchRetryBound ==
    entry = "search_papers" =>
        /\ attempt <= 3
        /\ Count(calls, "GET") = attempt
        /\ Len(calls) = attempt
        /\ NonDecreasing(slept)
        /\ pc # "done" => /\ attempt < 3
                          /\ Len(log) = attempt
                          /\ Len(slept) = attempt
        /\ pc = "done" =>
              /\ attempt >= 1
              /\ Len(slept) = attempt - 1
              /\ Len(log) = attempt - 1 \/ Len(log) = attempt
              /\ Len(log) = attempt <=> ret.kind = "raise"
              /\ ret.kind = "raise" =>
                    /\ attempt = 3
                    /\ ret = Raises(RetryError)
                    /\ outcome = "raised"
                    /\ slept = <<2, 2>>

\* three requests failed and the call ended with RetryError
C11_Witness ==
    /\ entry = "search_papers"
    /\ pc = "done"
    /\ attempt = 3
    /\ Len(log) = 3
    /\ ret = Raises(RetryError)
    /\ slept = <<2, 2>>

----------------------------------------------------------------------------
(* C12 *)

\* the download_pdf call ended by reporting that the fetch failed
DownloadReportedFailed ==
    /\ entry = "download_pdf"
    /\ pc = "done"
    /\ ret = Returned(None)
    /\ log # <<>>
    /\ Last(log) = "Download failed"

\* C12: a download_pdf call that reports a failed fetch has sent the request
\* 3 times: a fetch that fails with a network error is attempted again, up to
\* 3 attempts, before the download is reported as failed.
C12_DownloadRetriesFetch ==
    DownloadReportedFailed => /\ attempt = 3
                              /\ Count(calls, "GET") = 3

----------------------------------------------------------------------------
(* C13 *)

\* the operations whose result is decoded from the model's JSON
JsonOps == {"section_paper", "extract_insights", "compare_papers"}

\* the response is text and is not empty
NonEmpty(response) == response.kind = "text" /\ response.body # ""

\* the text, or the code block inside it, is JSON
Parseable(response) == response.body \in {"object", "array"}

\* the request ended with what was made of the answer of the last model called
TakenFromLastCall ==
    /\ entry \in JsonOps
    /\ pc = "done"
    /\ llm # <<>>
    /\ ret.kind = "return"
    /\ Len(llm) < Len(models_to_try)

\* C13: the models are tried in list order, and the result of a request is taken
\* from the first model whose response is both non-empty and parseable: the
\* model whose answer was used gave such a response.
C13_FirstParseableWins ==
    /\ entry \in JsonOps =>
          \A i \in DOMAIN llm : llm[i].model = models_to_try[i]
    /\ TakenFromLastCall =>
          /\ NonEmpty(Last(llm).response)
          /\ Parseable(Last(llm).response)

----------------------------------------------------------------------------
(* C14 *)

\* the model gave nothing: generate_content raised, or the text was empty
GaveNothing(response) == response.kind = "raise" \/ response.body = ""

\* the request ended after a pass over the chain in which every model gave nothing
AllModelsGaveNothing ==
    /\ entry \in LlmOps
    /\ pc = "done"
    /\ Len(llm) = Len(models_to_try)
    /\ \A i \in DOMAIN llm : GaveNothing(llm[i].response)

\* the default payload of an operation that has one
DefaultPayload ==
    CASE entry = "section_paper"    -> EmptySections
      [] entry = "extract_insights" -> _get_default_insights
      [] entry = "compare_papers"   -> _get_default_comparison(args.num_papers, args.topic)

----------------------------------------------------------------------------
(* C15 *)

\* the file exists, is named .pdf in any letter case, is not empty and begins
\* with the four bytes %PDF
Genuine(f) ==
    /\ f.exists
    /\ f.suffix \in {".pdf", ".PDF"}
    /\ Len(f.content) > 0
    /\ Len(f.content) >= 4
    /\ \A i \in 1..4 : f.content[i] = PdfMagic[i]

\* the checks in the order they are made
CheckOrder == <<"exists", "suffix", "size", "header">>

\* the number of checks made on a file all of whose system calls succeed
ChecksNeeded(f) ==
    IF ~f.exists THEN 1
    ELSE IF f.suffix \notin {".pdf", ".PDF"} THEN 2
    ELSE IF Len(f.content) = 0 THEN 3
    ELSE 4

\* C15: validate_pdf returns true exactly when the file exists, has the
\* extension .pdf compared case-insensitively, has a size above 0 and begins
\* with %PDF; the checks are made in that order and stop at the first that fails.
C15_ValidateExactly ==
    (entry = "validate_pdf" /\ pc = "done") =>
        /\ IsPrefix(ret.checks, CheckOrder)
        /\ (ret.kind = "return" /\ ret.value) => Genuine(args.file_path)
        /\ args.fault = "none" =>
              /\ ret.kind = "return"
              /\ ret.value = Genuine(args.file_path)
              /\ Len(ret.checks) = ChecksNeeded(args.file_path)

\* a file named .PDF that begins with %PDF was accepted after all four checks
C15_Witness ==
    /\ entry = "validate_pdf"
    /\ pc = "done"
    /\ args.file_path.suffix = ".PDF"
    /\ args.fault = "none"
    /\ ret.kind = "return"
    /\ ret.value
    /\ ret.checks = CheckOrder

----------------------------------------------------------------------------
(* C16 *)

\* C16: validate_pdf never raises: whatever the file system does during its
\* checks, the size check and a file that disappears between two checks
\* included, it returns false.
C16_ValidateNeverRaises ==
    entry = "validate_pdf" => /\ outcome # "raised"
                              /\ ret.kind # "raise"

----------------------------------------------------------------------------
(* C17 *)

\* a download_pdf call is about to run while the file a download_pdf call
\* before it validated and kept is still in the papers directory
ValidArtifactOnDisk ==
    /\ entry = "download_pdf"
    /\ pc = "download_pdf"
    /\ attempt = 0
    /\ PdfPath(args.paper) \in DOMAIN disk
    /\ Genuine(FileAt(disk, PdfPath(args.paper)))

\* no system call failed in this step
NoOsErrorIn(made) ==
    \A i \in DOMAIN made : made[i] \notin {"stat:OSError", "open:OSError", "write:OSError"}

\* C17: a download_pdf call for a paper whose validated file is still on disk
\* sends no request, leaves the papers directory as it is and returns the path
\* of that file, in its first attempt.
C17_IdempotentResumeStep ==
    (ValidArtifactOnDisk /\ NoOsErrorIn(calls')) =>
        /\ calls' = <<>>
        /\ disk' = disk
        /\ ret' = Returned(PdfPath(args.paper))
        /\ pc' = "done"
        /\ attempt' = 1
        /\ slept' = <<>>

C17_IdempotentResume == [][C17_IdempotentResumeStep]_vars

\* the second download_pdf call returned the path of the file that was there,
\* without a request
C17_Witness ==
    /\ entry = "download_pdf"
    /\ runs = 2
    /\ pc = "done"
    /\ attempt = 1
    /\ calls = <<>>
    /\ ret = Returned(PdfPath(args.paper))
    /\ PdfPath(args.paper) \in DOMAIN disk
    /\ Genuine(FileAt(disk, PdfPath(args.paper)))

----------------------------------------------------------------------------
(* C18 *)

\* the download_pdf call is over: it returned a path or None, or it raised
\* after its retries
DownloadCompleted == entry = "download_pdf" /\ pc = "done"

\* C18: after a completed download_pdf call the file at the paper's path does
\* not exist or is a genuine PDF, and a path is returned only for a file that
\* is a genuine PDF.
C18_NoInvalidArtifact ==
    DownloadCompleted =>
        LET pdf_path == PdfPath(args.paper)
        IN /\ pdf_path \in DOMAIN disk => Genuine(FileAt(disk, pdf_path))
           /\ (ret.kind = "return" /\ ret.value # None) =>
                 /\ ret.value = pdf_path
                 /\ pdf_path \in DOMAIN disk
                 /\ Genuine(FileAt(disk, pdf_path))

----------------------------------------------------------------------------
(* C19 *)

\* the documents of a listing that process_all_pdfs takes for PDFs
ValidPdfs(all_files) ==
    SelectSeq(all_files, LAMBDA f : f.suffix = ".pdf" /\ Take(f.content, 4) = PdfMagic)

\* C19: in process_all_pdfs and process_all_papers a document that fails does
\* not keep the documents after it from being processed, and the list returned
\* has exactly one entry for each document that succeeded, in input order, and
\* none for a document that failed.
C19_PerDocumentIsolation ==
    /\ (entry = "process_all_pdfs" /\ pc = "done") =>
          LET pdf_files == ValidPdfs(args.all_files)
              succeeded == SelectSeq(pdf_files, LAMBDA f : f.extraction = "ok")
          IN /\ ret.kind = "return"
             /\ calls = [i \in DOMAIN pdf_files |-> "process_pdf:" \o pdf_files[i].name]
             /\ ret.value = [i \in DOMAIN succeeded |-> succeeded[i].name \o ".json"]
    /\ (entry = "process_all_papers" /\ pc = "done") =>
          LET succeeded == SelectSeq(args.json_files, LAMBDA f : f.analysis = "success")
          IN /\ ret.kind = "return"
             /\ \A i \in DOMAIN args.json_files :
                   calls[i] = "analyze_paper:" \o args.json_files[i].name
             /\ ret.value = [i \in DOMAIN succeeded |-> succeeded[i].name \o "_analysis.json"]

----------------------------------------------------------------------------
(* C20 *)

\* the lines process_all_pdfs logs for documents whose extraction raised
ExtractionFailureLines ==
    SelectSeq(log, LAMBDA l :
        l \in {"Failed to process " \o DocName(i) \o ".pdf: " \o ExtractionFailure :
                 i \in 1..MaxDocs})

\* the texts that can stand in an errors entry for a document whose extraction raised
FailedDocumentErrors ==
    {"Failed to process " \o DocName(i) \o ".pdf: " \o ExtractionFailure : i \in 1..MaxDocs}
    \cup {ExtractionFailure}

\* the extraction stage has just run; process_all_pdfs returned the saved_files
\* of the documents that succeeded after the extraction of one document raised
OneExtractionRaised(stage, saved_files) ==
    /\ LastWas(stage)
    /\ Len(ExtractionFailureLines) = 1
    /\ saved_files # <<>>

\* C20: when the extraction of one document raises and the others succeed, the
\* errors of the run hold exactly one entry, for the failed document, and the
\* run goes on to the analysis stage.
C20_PartialFailureRecorded ==
    /\ (entry = "cli" /\ OneExtractionRaised("stage_2_extract", cli.extracted_files)) =>
          /\ pc = "stage_3_analyze"
          /\ Len(cli.errors) = 1
          /\ cli.errors[1] \in FailedDocumentErrors
    /\ (entry = "app" /\ OneExtractionRaised("extract", app.extracted_paths)) =>
          /\ pc = "analyze"
          /\ app.error \in FailedDocumentErrors

----------------------------------------------------------------------------
(* C21 *)

\* the documents of the listing whose analysis has status success
SucceededAnalyses == SelectSeq(args.json_files, LAMBDA f : f.analysis = "success")

\* C21: process_all_papers calls compare_papers exactly when at least 2 analyses
\* have status success; with fewer, nothing is compared and no comparison file
\* is written; and compare_papers itself, given fewer than 2 analyses, returns
\* the insufficient-papers result without calling a model.
C21_CompareThreshold ==
    /\ (entry = "process_all_papers" /\ pc = "done") =>
          /\ "compare_papers" \in Range(calls) <=> Len(SucceededAnalyses) >= 2
          /\ Len(SucceededAnalyses) < 2 =>
                /\ ret.compared = <<>>
                /\ ("write:" \o ComparisonPath) \notin Range(calls)
    /\ (entry = "compare_papers" /\ pc = "done" /\ args.num_papers < 2) =>
          /\ calls = <<>>
          /\ llm = <<>>
          /\ ret = Returned([error |-> "Insufficient papers for comparison",
                             num_papers |-> args.num_papers])

\* two documents were analysed, one analysis succeeded, nothing was compared
C21_Witness ==
    /\ entry = "process_all_papers"
    /\ pc = "done"
    /\ Len(args.json_files) = 2
    /\ Len(SucceededAnalyses) = 1
    /\ calls = <<"analyze_paper:doc1", "analyze_paper:doc2">>
    /\ ret.compared = <<>>

----------------------------------------------------------------------------
(* C22 *)

\* every analysis of the list has status success
AllSuccessful(analyses) ==
    \A i \in DOMAIN analyses : analyses[i].analysis_status = "success"

\* the analyses saved in the files of the listing that can be read
ReadableAnalyses ==
    LET readable == SelectSeq(args.analysis_files, LAMBDA f : f.readable)
    IN [i \in DOMAIN readable |-> readable[i].analysis]

\* C22: the analyses process_all_papers hands to compare_papers and the analyses
\* generate_review hands to generate_draft all have status success, and they
\* are all the successful ones, in order: a failed analysis is never among them.
C22_OnlySuccessfulFeedLaterStages ==
    /\ (entry = "process_all_papers" /\ pc = "done") =>
          /\ AllSuccessful(ret.compared)
          /\ ret.compared # <<>> =>
                ret.compared = [i \in DOMAIN SucceededAnalyses |->
                                   analyze_paper(SucceededAnalyses[i])]
    /\ (entry = "generate_review" /\ pc = "done") =>
          /\ AllSuccessful(ret.drafted)
          /\ ret.drafted = SelectSeq(ReadableAnalyses,
                                     LAMBDA a : a.analysis_status = "success")
          /\ "generate_draft" \in Range(calls) <=> ret.drafted # <<>>

\* a draft was generated from the one successful analysis of a directory that
\* also holds a failed one
C22_Witness ==
    /\ entry = "generate_review"
    /\ pc = "done"
    /\ Len(ret.drafted) = 1
    /\ \E i \in DOMAIN ReadableAnalyses : ReadableAnalyses[i].analysis_status = "failed"
    /\ ret.value.success

----------------------------------------------------------------------------
(* C23 *)

\* a sectioned document with every key of the ontology, each a text
FullySectioned(sections) ==
    /\ Range(SECTION_ONTOLOGY) \subseteq DOMAIN sections
    /\ \A k \in Range(SECTION_ONTOLOGY) : sections[k] \in {"", "A"}

\* C23: every sectioned document recorded for a paper has every key of the
\* section ontology: what section_paper returns on each of its paths, and the
\* sections of every analysis record analyze_paper returns, the failed ones
\* included.
C23_SectionsComplete ==
    /\ (entry = "section_paper" /\ pc = "done" /\ ret.kind = "return") =>
          FullySectioned(ret.value)
    /\ (entry = "analyze_paper" /\ pc = "done") =>
          FullySectioned(ret.value.sections)

----------------------------------------------------------------------------
(* C24 *)

\* the fields the model's answer gives a non-empty value for
Supplied(response) ==
    IF response.kind = "text" /\ response.body = "object"
    THEN {k \in DOMAIN response.object : response.object[k] # <<>>}
    ELSE {}

\* C24: every insights record has the four required fields, and a field the
\* model supplied nothing for is the empty list: in what extract_insights makes
\* of an answer, in what it returns when every model failed or there was
\* nothing to analyse, and in the insights of every analysis record.
C24_InsightsComplete ==
    /\ (entry = "extract_insights" /\ pc = "done" /\ ret.kind = "return") =>
          /\ Range(required_fields) \subseteq DOMAIN ret.value
          /\ \A k \in Range(required_fields) :
                (llm = <<>> \/ k \notin Supplied(Last(llm).response))
                    => ret.value[k] = <<>>
    /\ (entry = "analyze_paper" /\ pc = "done") =>
          /\ Range(required_fields) \subseteq DOMAIN ret.value.insights
          /\ ret.value.analysis_status = "failed" =>
                \A k \in Range(required_fields) : ret.value.insights[k] = <<>>

----------------------------------------------------------------------------
(* C25 *)

\* the candidate carries a non-empty open-access PDF URL
Qualifies(candidate) ==
    candidate.openAccessPdf # None /\ candidate.openAccessPdf # ""

\* the positions of the qualifying candidates of the answer, in service order
QualifyingPositions ==
    SelectSeq([i \in DOMAIN args.answer.data |-> i],
              LAMBDA i : Qualifies(args.answer.data[i]))

\* C25: search_papers asks for 2 x limit candidates and returns the first limit
\* candidates that carry a non-empty PDF URL, in service order: never more than
\* limit, never one without a pdf_url, and it looks at no candidate after the
\* one that completes the list.
C25_SearchFilter ==
    (entry = "search_papers" /\ pc = "done" /\ ret.kind = "return") =>
        LET data == args.answer.data
            n == Min(args.limit, Len(QualifyingPositions))
        IN /\ SearchParams(args.topic, args.limit).limit = 2 * args.limit
           /\ Len(ret.value) = n
           /\ Len(ret.value) <= args.limit
           /\ \A i \in DOMAIN ret.value :
                 /\ ret.value[i].pdf_url \notin {None, ""}
                 /\ ret.value[i].title = data[QualifyingPositions[i]].title
                 /\ ret.value[i].pdf_url = data[QualifyingPositions[i]].openAccessPdf
           /\ ret.scanned = IF Len(QualifyingPositions) >= args.limit
                            THEN QualifyingPositions[args.limit]
                            ELSE Len(data)

\* limit = 1: the first candidate has no PDF, the second has one and is
\* returned, the third, which has one too, is not looked at
C25_Witness ==
    /\ entry = "search_papers"
    /\ pc = "done"
    /\ ret.kind = "return"
    /\ args.limit = 1
    /\ Len(args.answer.data) = 2
    /\ ~Qualifies(args.answer.data[1])
    /\ Qualifies(args.answer.data[2])
    /\ Len(ret.value) = 1
    /\ ret.scanned = 2

----------------------------------------------------------------------------
(* C26 *)

\* C26: two runs for different topics never write the same file: every file of
\* the data directories has been written by one run only.
C26_DisjointPaths ==
    entry = "concurrent_runs" =>
        \A path \in DOMAIN disk :
            \A i \in DOMAIN disk[path] : disk[path][i] = disk[path][1]

----------------------------------------------------------------------------
(* __main__.py: main, the 'run' command *)

\* main calls run_complete, ignores the state it returns and falls off its
\* end: the process exits with 0 unless an exception escaped run_complete
main_exit_code == IF outcome = "raised" THEN 1 ELSE 0

----------------------------------------------------------------------------
(* C27 *)

\* the command-line run is over
RunCompleteOver == entry = "cli" /\ pc = "done"

\* C27: the command-line run exits with code 0 when it reached the draft
\* stage and that stage produced the draft, and with a non-zero code when it
\* ended without any paper having been downloaded.
C27_ExitCode ==
    RunCompleteOver =>
        /\ cli.draft # None => main_exit_code = 0
        /\ cli.papers = <<>> => main_exit_code # 0

----------------------------------------------------------------------------
(* C28 *)

\* validate_pdf does not return True for the file in this call
NotValidated(f, fault) == ~Genuine(f) \/ fault # "none"

\* validate_pdf gets as far as file_path.stat() and that call fails
StatFails(f, fault) == f.exists /\ f.suffix \in {".pdf", ".PDF"} /\ fault = "stat"

\* the texts of the TextExtractionError raised for a file that validate_pdf turned down
TurnedDown == {NotAValidPdf, InvalidOrCorrupted}

\* C28: the extraction stage never opens or reads, outside validate_pdf, a
\* file that validate_pdf does not accept: process_pdf and extract_raw_text
\* raise before they open it, with TextExtractionError when validate_pdf
\* returned False, and process_all_pdfs never hands it to process_pdf and
\* saves no extracted-text record for it.
C28_NoReadOfInvalid ==
    /\ (entry \in {"process_pdf", "extract_raw_text"} /\ pc = "done"
        /\ NotValidated(args.file_path, args.fault)) =>
          /\ ret.kind = "raise"
          /\ ret.opened = <<>>
          /\ ~StatFails(args.file_path, args.fault) => ret.text \in TurnedDown
    /\ (entry = "process_all_pdfs" /\ pc = "done") =>
          \A i \in DOMAIN args.all_files :
             LET f == args.all_files[i]
             IN NotValidated(ListedFile(f), f.fault) =>
                   /\ f.name \notin Range(ret.opened)
                   /\ ("process_pdf:" \o f.name) \notin Range(calls)
                   /\ ret.kind = "return" => (f.name \o ".json") \notin Range(ret.value)

\* process_all_pdfs found an HTML page saved as .pdf next to a PDF: it read
\* and saved the PDF only
C28_Witness ==
    /\ entry = "process_all_pdfs"
    /\ pc = "done"
    /\ Len(args.all_files) = 2
    /\ ~Genuine(ListedFile(args.all_files[1]))
    /\ args.all_files[1].suffix = ".pdf"
    /\ ret.kind = "return"
    /\ ret.opened = <<args.all_files[2].name>>
    /\ ret.value = <<args.all_files[2].name \o ".json">>

----------------------------------------------------------------------------
(* C29 *)

\* the download_pdf call fetched a file that validate_pdf turned down
FetchedFileRejected ==
    /\ entry = "download_pdf"
    /\ log # <<>>
    /\ Last(log) = NotAValidDownload

\* process_topic went through all the papers of the search and returned
TopicProcessed ==
    /\ entry = "process_topic"
    /\ pc = "done"
    /\ ret.kind = "return"
    /\ args.papers # <<>>

\* the papers for which download_pdf gave a path, with that path, in order
PapersWithPath(outcomes) ==
    LET with_path == SelectSeq(outcomes, LAMBDA o : o.pdf_path # None)
    IN [i \in DOMAIN with_path |->
           [title |-> with_path[i].paper.title, pdf_url |-> with_path[i].paper.pdf_url,
            local_path |-> with_path[i].pdf_path]]

\* C29: when a fetched file fails validation, download_pdf deletes it, returns
\* None and sends no further request in that call; process_topic then leaves
\* the paper out of the list it returns and out of the metadata it saves, and
\* reports success only if download_pdf gave a validated file for at least
\* one paper.
C29_RejectedDownloadLeftOut ==
    /\ FetchedFileRejected =>
          /\ pc = "done"
          /\ ret = Returned(None)
          /\ PdfPath(args.paper) \notin DOMAIN disk
          /\ Last(calls) = "unlink"
    /\ TopicProcessed =>
          /\ \A i \in DOMAIN args.outcomes :
                args.outcomes[i].rejected => args.outcomes[i].pdf_path = None
          /\ ret.value.papers = PapersWithPath(args.outcomes)
          /\ ret.metadata = PapersWithPath(args.outcomes)
          /\ ret.saved <=> ret.value.success
          /\ ret.value.success <=>
                \E i \in DOMAIN args.outcomes : args.outcomes[i].pdf_path # None

\* process_topic found two papers: the file fetched for the first was turned
\* down, the second was downloaded, and the metadata holds the second only
C29_Witness ==
    /\ TopicProcessed
    /\ Len(args.outcomes) = 2
    /\ args.outcomes[1].rejected
    /\ args.outcomes[2].pdf_path # None
    /\ ret.value.success
    /\ Len(ret.metadata) = 1
    /\ ret.metadata[1].title = args.papers[2].title
    /\ PdfPath(args.papers[1]) \notin DOMAIN disk

----------------------------------------------------------------------------
(* C30 *)

\* a stage function called by run_generate_only returns
GenerateOnlyStageReturns ==
    /\ entry = "run_generate_only"
    /\ pc \in GraphNodes
    /\ outcome' # "raised"

\* run_generate_only goes on as the compiled graph does after the same stage
\* returned the same state
FollowsGraph ==
    IF GraphNext(pc, state') = "END"
    THEN pc' = "done"
    ELSE pc' = GraphNext(pc, state')

\* C30: whatever the critiques signal, run_generate_only executes the stages
\* the compiled graph executes from extract_text on for the same state: after
\* every stage its next stage is the graph's next stage, so it performs as
\* many revise_paper and critique_paper executions as the graph.
C30_GenerateOnlyRefinesGraph ==
    [][GenerateOnlyStageReturns => FollowsGraph]_vars

----------------------------------------------------------------------------
(* C31 *)

\* the four success flags of the app.py state
AllStagesSucceeded(st) ==
    /\ st.search_success
    /\ st.extraction_success
    /\ st.analysis_success
    /\ st.draft_success

\* a draft is there only after four successful stages and with no error
DraftOnlyAfterSuccess(st) ==
    st.draft # None => (st.error = None /\ AllStagesSucceeded(st))

\* C31: in the app.py pipeline the error field, once it is set, is never
\* changed or cleared by a later stage, and draft is non-null only if error
\* is null and search_success, extraction_success, analysis_success and
\* draft_success are all true.
C31_ErrorSticksDraftNeedsSuccess ==
    [][(entry = "app" /\ SameRun) =>
          /\ app.error # None => app'.error = app.error
          /\ DraftOnlyAfterSuccess(app')]_vars

-----------------------------------------------------------------------------
(* C32 *)

\* Status: '✅ Complete' if not self.state['errors'] else '⚠️ Partial'
summary_status(st) == IF st.errors = <<>> THEN "Complete" ELSE "Partial"

\* every stage of run_complete ran and the last one returned True
AllFourStagesSucceeded == executed = CliStages /\ cli.draft # None

\* C32: when the command-line run is over, its summary reports Complete only
\* if all four stages succeeded (a stage that returned False has left an entry
\* in errors), and errors holds at most one entry.
C32_FalseStageLeavesError ==
    RunCompleteOver =>
        /\ summary_status(cli) = "Complete" => AllFourStagesSucceeded
        /\ Len(cli.errors) <= 1

-----------------------------------------------------------------------------
(* C33 *)

\* the papers run id's search stage recorded: result["papers"] of process_topic
RunPapers(id) ==
    IF StagesDone(id, calls) >= 1 THEN {PaperName(args.run[id].paper)} ELSE {}

\* the documents run id's process_all_pdfs extracted
RunExtracted(id) ==
    {name \in {PaperName(q) : q \in Papers} :
        /\ ExtractedDir(name \o ".json") \in DOMAIN disk
        /\ id \in Range(disk[ExtractedDir(name \o ".json")])}

\* the documents run id's process_all_papers analysed
RunAnalysed(id) ==
    {name \in {PaperName(q) : q \in Papers} :
        /\ AnalysisDir(name \o "_analysis.json") \in DOMAIN disk
        /\ id \in Range(disk[AnalysisDir(name \o "_analysis.json")])}

\* C33: the documents a run extracts and analyses are among the papers its own
\* search stage recorded; a file another run left in the shared directories
\* never enters this run's stages.
C33_OnlyOwnPapers ==
    entry = "concurrent_runs" =>
        \A id \in RunIds : RunExtracted(id) \cup RunAnalysed(id) \subseteq RunPapers(id)

-----------------------------------------------------------------------------
(* C34 *)

\* the extracted-text files whose analysis process_all_papers saved with
\* analysis_status "success"
SuccessfulAnalyses(json_files) ==
    {i \in DOMAIN json_files :
        /\ json_files[i].analysis # "save_raises"
        /\ analyze_paper(json_files[i]).analysis_status = "success"}

\* the paths of the analyses saved with analysis_status "success"
SuccessfulPaths(json_files) ==
    {AnalysisPath(analyze_paper(json_files[i])) : i \in SuccessfulAnalyses(json_files)}

\* process_all_papers has returned its analysis_paths
AllPapersProcessed == entry = "process_all_papers" /\ pc = "done"

\* C34: the analysis stage is marked successful only if at least one paper's
\* analysis has status success, and the collection of analyses it reports
\* holds no failed analysis; for analyze_node of app.py and stage_3_analyze of
\* the command line, applied to what process_all_papers returned.
C34_SuccessNeedsSuccessfulAnalysis ==
    AllPapersProcessed =>
        LET node == analyze_node(create_initial_state(Topic), ret)
            stage == stage_3_analyze(CliInitialState(Topic), ret)
        IN /\ node.analysis_success => SuccessfulAnalyses(args.json_files) # {}
           /\ Range(node.analysis_paths) \subseteq SuccessfulPaths(args.json_files)
           /\ stage.ok => SuccessfulAnalyses(args.json_files) # {}
           /\ Range(stage.st.analysis_files) \subseteq SuccessfulPaths(args.json_files)

-----------------------------------------------------------------------------
(* C35 *)

\* the model identifiers called so far in the current pass over models_to_try
ModelsCalled == [i \in DOMAIN llm |-> llm[i].model]

\* C35: within one pass over the fallback chain of a request no model
\* identifier is called twice.
C35_EachModelOncePerPass ==
    entry \in LlmOps =>
        \A i \in DOMAIN ModelsCalled : \A j \in DOMAIN ModelsCalled :
            ModelsCalled[i] = ModelsCalled[j] => i = j

-----------------------------------------------------------------------------
(* C36 *)

\* the generate_content calls of the request so far, over all its attempts
CompletionCalls == Cardinality({i \in DOMAIN calls : IsPrefix("generate_content:", calls[i])})

\* C36: a logical LLM request makes a bounded number of completion calls and
\* then ends: generate_draft at most 3 attempts of 5 models, section_paper,
\* extract_insights and compare_papers at most one pass over the 5 models of
\* the chain, without the retry decorator ever waiting for another attempt.
C36_BoundedCompletionCalls ==
    entry \in LlmOps =>
        /\ Len(models_to_try) = 5
        /\ CompletionCalls <= (IF entry = "generate_draft" THEN 3 * 5 ELSE 5)
        /\ entry # "generate_draft" => slept = <<>>
        /\ CompletionCalls = (IF entry = "generate_draft" THEN 3 * 5 ELSE 5) => pc = "done"

\* every model failed on every call of the 3 attempts of generate_draft
C36_Witness ==
    /\ entry = "generate_draft"
    /\ pc = "done"
    /\ CompletionCalls = 15
    /\ Len(slept) = 2
    /\ ret.kind = "raise"

-----------------------------------------------------------------------------
(* C37 *)

\* process_topic is going through the papers search_papers found, on a papers
\* directory that was empty when it started
Downloading == entry = "process_topic" /\ args.outcomes # <<>>

\* the file download_pdf returned for the i-th paper was fetched by a GET of
\* that paper's own pdf_url, in this call or in an earlier one of the loop
FetchedFromOwnUrl(outcomes, i) ==
    \E j \in 1..i :
        /\ outcomes[j].fetched
        /\ outcomes[j].pdf_path = outcomes[i].pdf_path
        /\ outcomes[j].paper.pdf_url = outcomes[i].paper.pdf_url

\* C37: the file download_pdf returns for a paper was fetched from that
\* paper's own pdf_url, and two papers with different titles are never stored
\* at the same path.
C37_OwnArtifact ==
    Downloading =>
        \A i \in DOMAIN args.outcomes :
            args.outcomes[i].pdf_path # None =>
                /\ FetchedFromOwnUrl(args.outcomes, i)
                /\ \A j \in DOMAIN args.outcomes :
                      args.outcomes[j].pdf_path = args.outcomes[i].pdf_path =>
                          args.outcomes[j].paper.title = args.outcomes[i].paper.title


====
